---- MODULE Spec2Model ----
(***************************************************************************)
(* A model of the Kalshi liquidity-provider bot:                           *)
(*   - KalshiClient (src/kalshi-bot/kalshi_api.py): token cache, the       *)
(*     retrying _request loop, place_order / cancel_order / get_balance;   *)
(*   - CircuitBreaker, InventoryManager, the position sizers and the       *)
(*     TradingBot of src/kalshi-bot/trading_bot_CORRECTED.py.              *)
(*                                                                         *)
(* Python dicts are records with a "shape" tag; None / a missing key /     *)
(* a falsy value is 0 (order_id, token_expires) or NoToken.  Floats are    *)
(* exact rationals, compared by cross-multiplication.  Exceptions are      *)
(* result records with ok = FALSE and the exception class in exc.          *)
(***************************************************************************)
EXTENDS Integers, Sequences, FiniteSets, TLC

VARIABLES
    now,        \* time.time(), whole seconds
    today,      \* datetime.now().date(), as a day number
    client,     \* KalshiClient: last_token, token_expires
    http,       \* HTTP attempts sent during the operation in progress
    ret,        \* what the last KalshiClient call returned or raised
    cb,         \* CircuitBreaker fields
    inv,        \* InventoryManager fields
    state,      \* TradingBot.state (persisted counters) and what was saved
    pc,         \* where TradingBot.run / run_once / the order sequence stands
    cycle,      \* locals of run_once: markets still to do, profits
    frame,      \* locals of place_market_making_orders
    threads     \* locals of the _get_token calls in progress, per caller

vars == <<now, today, client, http, ret, cb, inv, state, pc, cycle, frame, threads>>

-----------------------------------------------------------------------------
(* Program constants *)

TOKEN_EXPIRY_SECONDS == 300
TOKEN_BUFFER_SECONDS == 60
MAX_RETRIES == 3
REQUEST_TIMEOUT_SECONDS == 30

KALSHI_FEE_PER_CONTRACT == 2
MIN_PROFIT_CENTS == 1
USE_KELLY_SIZING == TRUE
MAX_POSITION_CONTRACTS == 100
MIN_POSITION_CONTRACTS == 1
DAILY_LOSS_LIMIT_CENTS == 5000
MAX_DRAWDOWN_PCT_NUM == 10        \* MAX_DRAWDOWN_PCT = 0.10 = 10 / 100
MAX_DRAWDOWN_PCT_DEN == 100
MAX_POSITION_VALUE_CENTS == 10000
MAX_EXPOSURE_CENTS == 5000
ORDERS_PER_MINUTE == 10
RATE_WINDOW_SECONDS == 60
MARKETS_PER_CYCLE == 5
CYCLE_SLEEP_SECONDS == 300
MARKET_SLEEP_SECONDS == 1
MIN_VOLUME_THRESHOLD == 1000

(* Bounds of the model *)

MaxTime == 303       \* the clock stops advancing here
MaxDay == 1          \* date rollovers modelled
MaxMarkets == 2      \* liquid markets a scan returns
MaxClientTime == 95  \* the clock's end in the runs of the client alone
MaxTokenTime == 600  \* the clock's end in the runs of _get_token alone
MaxRaceTime == 2     \* the clock's end in the runs of two concurrent callers
MaxBreakerTime == 60 \* the clock's end in the runs of the breaker alone
MaxBreakerDay == 1   \* date rollovers in the runs of the breaker alone

-----------------------------------------------------------------------------
(* Small helpers *)

Min(a, b) == IF a < b THEN a ELSE b
Max(a, b) == IF a > b THEN a ELSE b
Abs(a) == IF a < 0 THEN -a ELSE a

\* Python's int(n / d) for d > 0: truncation toward zero.
TruncDiv(n, d) == IF n >= 0 THEN n \div d ELSE -((-n) \div d)

RECURSIVE Pow2(_)
Pow2(n) == IF n = 0 THEN 1 ELSE 2 * Pow2(n - 1)

-----------------------------------------------------------------------------
(* The exchange, as KalshiClient sees it.                                  *)
(* One outcome per HTTP attempt:                                           *)
(*   json     2xx with a JSON object as body                               *)
(*   empty    2xx with an empty body                                       *)
(*   conn     requests.exceptions.ConnectionError                          *)
(*   timeout  requests.exceptions.Timeout after REQUEST_TIMEOUT_SECONDS    *)
(*   http     4xx / 5xx: raise_for_status() raises HTTPError               *)
(*   badjson  2xx whose body is not JSON: response.json() raises           *)
(*   other    any other exception raised inside the try block              *)

None == -1          \* Python's None where a number is expected
NoToken == None
\* A JSON object: shape says which object it is; order_id = 0 is a missing
\* or falsy 'order_id'; balance says what sits under 'balance' of a
\* portfolio ("missing", "not_dict", "empty", "no_cash", "cash").
Body(shape, order_id, balance, cash) ==
    [shape |-> shape, order_id |-> order_id, balance |-> balance, cash |-> cash]
NoBody == Body("none", 0, "", 0)
EmptyDict == Body("empty", 0, "", 0)
OrderBody(order_id) == Body("order", order_id, "", 0)
PortfolioBody(balance, cash) == Body("portfolio", 0, balance, cash)

RetryKinds == {"conn", "timeout", "other"}

\* Malformed JSON taken for a failure worth retrying: C11 must tell it from
\* FatalKinds.
OnlyHttpFatal == {"http"}

\* The failures _request raises KalshiAPIError for at once
FatalKinds == {"http", "badjson"}

Outcome(kind, body) ==
    [kind |-> kind, body |-> body,
     dur |-> IF kind = "timeout" THEN REQUEST_TIMEOUT_SECONDS ELSE 0]

\* The exchange's answers to the successive attempts of one request: the
\* answer to attempt i is s[i], and the last one repeats.
Scenarios(bodies, failures) ==
    LET Outs == {Outcome("json", b) : b \in bodies}
                \cup {Outcome(k, NoBody) : k \in failures \cup {"empty"}}
        Seqs == UNION {[1..n -> Outs] : n \in 1..MAX_RETRIES}
    IN {s \in Seqs : /\ \A i \in 1..(Len(s) - 1) : s[i].kind \in RetryKinds
                     /\ Len(s) < MAX_RETRIES => s[Len(s)].kind \notin RetryKinds}

AttemptOutcome(outs, i) == outs[Min(i, Len(outs))]

-----------------------------------------------------------------------------
(* KalshiClient *)

\* _get_token reusing the cached token until it expires, without the
\* buffer: C15 must tell it from _get_token.
_get_token_without_buffer(c, t) ==
    IF /\ c.last_token # NoToken
       /\ c.token_expires # 0
       /\ t < c.token_expires
    THEN c
    ELSE [last_token |-> t, token_expires |-> t + TOKEN_EXPIRY_SECONDS]

\* _get_token: reuse the cached token while now < expiry - buffer, else mint.
\* A token is named by its issue time (the payload is {sub, exp, iat}).
_get_token(c, t) ==
    IF /\ c.last_token # NoToken
       /\ c.token_expires # 0
       /\ t < c.token_expires - TOKEN_BUFFER_SECONDS
    THEN c
    ELSE [last_token |-> t, token_expires |-> t + TOKEN_EXPIRY_SECONDS]

APIError(cause, n, slept, el) ==
    [ok |-> FALSE, exc |-> "KalshiAPIError", cause |-> cause, body |-> NoBody,
     attempts |-> n, slept |-> slept, elapsed |-> el]

\* A loop bound one too wide, range(max_retries + 1): C10 must tell it from
\* InRange.
InRangeInclusive(attempt) == attempt <= MAX_RETRIES

\* for attempt in range(self.max_retries): whether attempt is in the range
InRange(attempt) == attempt < MAX_RETRIES

\* A backoff that also sleeps after the last attempt: C35 must tell it from
\* BacksOff.
BacksOffAfterEveryAttempt(attempt) == attempt < MAX_RETRIES

\* Lines 197 and 230: if attempt < self.max_retries - 1, before the sleep
BacksOff(attempt) == attempt < MAX_RETRIES - 1

\* The for-loop of _request.  attempt counts from 0 as range(max_retries)
\* does; slept lists the backoff sleeps taken, el the seconds gone by.
RECURSIVE RequestLoop(_, _, _, _, _)
RequestLoop(attempt, outs, last_error, slept, el) ==
    IF ~InRange(attempt)
    THEN APIError(last_error, attempt, slept, el)
    ELSE LET o == AttemptOutcome(outs, attempt + 1)
             el1 == el + o.dur
             more == BacksOff(attempt)
             wait_time == Pow2(attempt)
         IN CASE o.kind = "json" ->
                   [ok |-> TRUE, exc |-> "", cause |-> "", body |-> o.body,
                    attempts |-> attempt + 1, slept |-> slept, elapsed |-> el1]
              [] o.kind = "empty" ->
                   [ok |-> TRUE, exc |-> "", cause |-> "", body |-> EmptyDict,
                    attempts |-> attempt + 1, slept |-> slept, elapsed |-> el1]
              [] o.kind \in {"conn", "timeout"} ->
                   RequestLoop(attempt + 1, outs, o.kind,
                               IF more THEN Append(slept, wait_time) ELSE slept,
                               IF more THEN el1 + wait_time ELSE el1)
              [] o.kind \in FatalKinds ->
                   APIError(o.kind, attempt + 1, slept, el1)
              [] OTHER ->
                   RequestLoop(attempt + 1, outs, o.kind,
                               IF more THEN Append(slept, wait_time) ELSE slept,
                               IF more THEN el1 + wait_time ELSE el1)

\* _request: one token lookup, then the loop.  sent is the list of HTTP
\* attempts made, each carrying what was asked.
Reply(c, c1, r, what) ==
    [res |-> r,
     client |-> c1,
     minted |-> c1 # c,
     sent |-> [i \in 1..r.attempts |-> what]]

_request(c, t, what, outs) ==
    Reply(c, _get_token(c, t), RequestLoop(0, outs, "", <<>>, 0), what)

NoRequest(c, exc) ==
    [res |-> [ok |-> FALSE, exc |-> exc, cause |-> "", body |-> NoBody,
              attempts |-> 0, slept |-> <<>>, elapsed |-> 0],
     client |-> c, minted |-> FALSE, sent |-> <<>>]

Wire(endpoint, side, price, count, type, order_id) ==
    [endpoint |-> endpoint, side |-> side, price |-> price, count |-> count,
     type |-> type, order_id |-> order_id]

\* place_order without its input checks: C8 must tell it from place_order.
place_order_unchecked(c, t, side, price, count, order_type, outs) ==
    _request(c, t, Wire("/orders", side, price, count, order_type, 0), outs)

\* place_order checking its inputs only after the request was made: C9 must
\* tell it from place_order.
place_order_checking_late(c, t, side, price, count, order_type, outs) ==
    LET q == _request(c, t, Wire("/orders", side, price, count, order_type, 0), outs)
    IN IF /\ side \in {"yes", "no"}
          /\ 1 <= price /\ price <= 99
          /\ count > 0
          /\ order_type \in {"limit", "market"}
       THEN q
       ELSE [q EXCEPT !.res.ok = FALSE, !.res.exc = "ValueError"]

\* place_order: the four input checks, then POST /orders.
place_order(c, t, side, price, count, order_type, outs) ==
    IF side \notin {"yes", "no"} THEN NoRequest(c, "ValueError")
    ELSE IF ~(1 <= price /\ price <= 99) THEN NoRequest(c, "ValueError")
    ELSE IF count <= 0 THEN NoRequest(c, "ValueError")
    ELSE IF order_type \notin {"limit", "market"} THEN NoRequest(c, "ValueError")
    ELSE _request(c, t, Wire("/orders", side, price, count, order_type, 0), outs)

\* cancel_order: POST /orders/{order_id}/cancel, no checks.
cancel_order(c, t, order_id, outs) ==
    _request(c, t, Wire("/orders/{id}/cancel", "", 0, 0, "", order_id), outs)

\* get_portfolio answering a failed request with its empty default: C12
\* must tell it from PortfolioOf.
PortfolioOfSwallowing(q) ==
    IF ~q.res.ok
    THEN [q EXCEPT !.res.ok = TRUE, !.res.exc = "", !.res.cause = "",
                   !.res.body = PortfolioBody("empty", 0)]
    ELSE IF q.res.body.shape = "empty"
    THEN [q EXCEPT !.res.body = PortfolioBody("empty", 0)]
    ELSE q

\* get_portfolio: an empty response becomes {'balance': {}}; a
\* KalshiAPIError is re-raised.
PortfolioOf(q) ==
    IF q.res.ok /\ q.res.body.shape = "empty"
    THEN [q EXCEPT !.res.body = PortfolioBody("empty", 0)]
    ELSE q

get_portfolio(c, t, outs) ==
    PortfolioOf(_request(c, t, Wire("/portfolio", "", 0, 0, "", 0), outs))

\* get_balance: portfolio['balance'] when it is an object, {} when the
\* portfolio is empty, has no 'balance' or 'balance' is no object.
BalanceOf(q) ==
    IF ~q.res.ok THEN q
    ELSE IF q.res.body.shape = "empty" THEN [q EXCEPT !.res.body = EmptyDict]
    ELSE IF q.res.body.balance = "missing" THEN [q EXCEPT !.res.body = EmptyDict]
    ELSE IF q.res.body.balance = "not_dict" THEN [q EXCEPT !.res.body = EmptyDict]
    ELSE IF q.res.body.balance = "empty" THEN [q EXCEPT !.res.body = EmptyDict]
    ELSE [q EXCEPT !.res.body = Body("balance", 0, q.res.body.balance, q.res.body.cash)]

get_balance(c, t, outs) == BalanceOf(get_portfolio(c, t, outs))

\* The answer to a read that expects a list under a key: key says what sits
\* under it ("missing", "not_list", "list"), n how many entries the list has.
ListBody(shape, key, n) == Body(shape, 0, key, n)
MarketBody(volume) == Body("market", 0, "", volume)

\* get_markets letting through whatever is not empty: C13 must tell it from
\* MarketsOf.
MarketsOfUnchecked(q) ==
    IF q.res.ok /\ q.res.body.shape = "empty"
    THEN [q EXCEPT !.res.body = ListBody("markets", "list", 0)]
    ELSE q

\* get_markets: {'markets': []} for an empty response, a response without
\* 'markets' or with a 'markets' that is no list; a KalshiAPIError is
\* re-raised.
MarketsOf(q) ==
    IF ~q.res.ok THEN q
    ELSE IF q.res.body.shape = "empty"
    THEN [q EXCEPT !.res.body = ListBody("markets", "list", 0)]
    ELSE IF q.res.body.balance = "missing"
    THEN [q EXCEPT !.res.body = ListBody("markets", "list", 0)]
    ELSE IF q.res.body.balance = "not_list"
    THEN [q EXCEPT !.res.body = ListBody("markets", "list", 0)]
    ELSE q

get_markets(c, t, outs) ==
    MarketsOf(_request(c, t, Wire("/markets", "", 0, 0, "", 0), outs))

\* get_market: {} for an empty response, else the response.
MarketOf(q) ==
    IF q.res.ok /\ q.res.body.shape = "empty"
    THEN [q EXCEPT !.res.body = EmptyDict]
    ELSE q

get_market(c, t, outs) ==
    MarketOf(_request(c, t, Wire("/markets/{id}", "", 0, 0, "", 0), outs))

\* get_open_orders: GET /orders with status=open; {'orders': []} for an
\* empty response, else the response.
OpenOrdersOf(q) ==
    IF q.res.ok /\ q.res.body.shape = "empty"
    THEN [q EXCEPT !.res.body = ListBody("orders", "list", 0)]
    ELSE q

get_open_orders(c, t, outs) ==
    OpenOrdersOf(_request(c, t, Wire("/orders?status=open", "", 0, 0, "", 0), outs))

\* get_positions: {'positions': []} for an empty response, else the response.
PositionsOf(q) ==
    IF q.res.ok /\ q.res.body.shape = "empty"
    THEN [q EXCEPT !.res.body = ListBody("positions", "list", 0)]
    ELSE q

get_positions(c, t, outs) ==
    PositionsOf(_request(c, t, Wire("/portfolio/positions", "", 0, 0, "", 0), outs))

\* balance.get('cash', 0) of the callers
Cash(body) == IF body.shape = "balance" /\ body.balance = "cash" THEN body.cash ELSE 0

-----------------------------------------------------------------------------
(* Rationals n / d with d > 0, for the averages that Python keeps as floats *)

RECURSIVE GCD(_, _)
GCD(a, b) == IF b = 0 THEN a ELSE GCD(b, a % b)

Rat(n, d) ==
    LET g == GCD(Abs(n), d)
    IN IF g = 0 THEN [n |-> 0, d |-> 1] ELSE [n |-> n \div g, d |-> d \div g]

-----------------------------------------------------------------------------
(* CircuitBreaker *)

CircuitBreaker(start) ==
    [daily_loss_limit |-> DAILY_LOSS_LIMIT_CENTS,
     max_position_value |-> MAX_POSITION_VALUE_CENTS,
     orders_per_minute_limit |-> ORDERS_PER_MINUTE,
     start_balance |-> start,
     peak_balance |-> start,
     daily_pnl |-> 0,
     order_timestamps |-> <<>>,
     last_reset_date |-> 0]

\* A reset that leaves the order window as it is: C18 must tell it from
\* reset_if_new_day.
reset_keeping_window(b, date) ==
    IF date # b.last_reset_date
    THEN [b EXCEPT !.daily_pnl = 0, !.last_reset_date = date]
    ELSE b

\* A reset at every check, whatever the date: C5 must tell it from
\* reset_if_new_day.
reset_at_every_check(b, date) ==
    [b EXCEPT !.daily_pnl = 0, !.order_timestamps = <<>>, !.last_reset_date = date]

reset_if_new_day(b, date) ==
    IF date # b.last_reset_date
    THEN [b EXCEPT !.daily_pnl = 0, !.order_timestamps = <<>>,
                   !.last_reset_date = date]
    ELSE b

recent_orders(b, t) ==
    SelectSeq(b.order_timestamps, LAMBDA x : t - x < RATE_WINDOW_SECONDS)

\* A daily-loss test that also rejects at the limit itself: C17 must tell it
\* from DailyLossExceeded.
DailyLossAtLimit(b) == b.daily_pnl <= -b.daily_loss_limit

\* Line 76
DailyLossExceeded(b) == b.daily_pnl < -b.daily_loss_limit

\* A drawdown test that also rejects at the limit itself: C19 must tell it
\* from DrawdownExceeded.
DrawdownAtLimit(b, current_balance) ==
    /\ b.peak_balance > 0
    /\ (b.peak_balance - current_balance) * MAX_DRAWDOWN_PCT_DEN
         >= MAX_DRAWDOWN_PCT_NUM * b.peak_balance

\* Lines 80-82: (peak - balance) / peak > 0.10, skipped for a peak of 0.  The
\* float quotient compares with 0.10 as the exact one does while the peak is
\* below 10^15 cents.
DrawdownExceeded(b, current_balance) ==
    /\ b.peak_balance > 0
    /\ (b.peak_balance - current_balance) * MAX_DRAWDOWN_PCT_DEN
         > MAX_DRAWDOWN_PCT_NUM * b.peak_balance

\* A rate test that lets the order at the limit through: C20 must tell it
\* from RateLimited.
RateLimitedAbove(b, t) == Len(recent_orders(b, t)) > b.orders_per_minute_limit

\* Lines 90-92
RateLimited(b, t) == Len(recent_orders(b, t)) >= b.orders_per_minute_limit

\* A peak update that a latched daily loss skips: C32 must tell it from
\* update_peak.
update_peak_unless_latched(b, current_balance) ==
    IF current_balance > b.peak_balance /\ ~DailyLossExceeded(b)
    THEN [b EXCEPT !.peak_balance = current_balance]
    ELSE b

\* Lines 72-73
update_peak(b, current_balance) ==
    IF current_balance > b.peak_balance
    THEN [b EXCEPT !.peak_balance = current_balance]
    ELSE b

\* The limits with the position value tested before the drawdown: C33 must
\* tell it from first_failing_limit.
first_failing_limit_position_first(b, t, current_balance, position_value) ==
    IF DailyLossExceeded(b)
    THEN "Daily loss limit exceeded"
    ELSE IF position_value > b.max_position_value
    THEN "Position too large"
    ELSE IF DrawdownExceeded(b, current_balance)
    THEN "Max drawdown exceeded"
    ELSE IF RateLimited(b, t)
    THEN "Rate limit"
    ELSE "OK"

\* Lines 75-95: the four limits in the order of the code, each returning at
\* once when it fails; the reason is the text before the figures.
first_failing_limit(b, t, current_balance, position_value) ==
    IF DailyLossExceeded(b)
    THEN "Daily loss limit exceeded"
    ELSE IF DrawdownExceeded(b, current_balance)
    THEN "Max drawdown exceeded"
    ELSE IF position_value > b.max_position_value
    THEN "Position too large"
    ELSE IF RateLimited(b, t)
    THEN "Rate limit"
    ELSE "OK"

\* check_trade_allowed: the reset, the peak update, then the four limits in
\* order.  Yields the breaker as the call leaves it and the verdict.
check_trade_allowed(b, date, t, current_balance, position_value) ==
    LET b1 == reset_if_new_day(b, date)
        b2 == update_peak(b1, current_balance)
        verdict == first_failing_limit(b2, t, current_balance, position_value)
    IN [cb |-> b2, allowed |-> verdict = "OK", reason |-> verdict]

\* A record_order that also books the pair as a loss: C40 must tell it from
\* record_order.
record_order_booking_pnl(b, t) ==
    [b EXCEPT !.order_timestamps = Append(@, t),
              !.daily_pnl = @ - (DAILY_LOSS_LIMIT_CENTS + 1)]

\* Lines 97-99
record_order(b, t) == [b EXCEPT !.order_timestamps = Append(@, t)]

record_pnl(b, pnl_cents) == [b EXCEPT !.daily_pnl = @ + pnl_cents]

-----------------------------------------------------------------------------
(* InventoryManager *)

InventoryManager(max_exposure) ==
    [max_exposure |-> max_exposure,
     yes_contracts |-> 0,
     no_contracts |-> 0,
     avg_yes_price |-> Rat(50, 1),
     avg_no_price |-> Rat(50, 1)]

\* get_exposure: yes_value, no_value and |net| as rationals
get_exposure(m) ==
    LET yes_value == Rat(m.yes_contracts * m.avg_yes_price.n, m.avg_yes_price.d)
        no_value == Rat(m.no_contracts * m.avg_no_price.n, m.avg_no_price.d)
    IN [yes_contracts |-> m.yes_contracts,
        no_contracts |-> m.no_contracts,
        yes_value |-> yes_value,
        no_value |-> no_value,
        net_exposure |-> Rat(Abs(yes_value.n * no_value.d - no_value.n * yes_value.d),
                             yes_value.d * no_value.d)]

\* The projected exposure of can_add_position, lines 140-147: the side's
\* whole count valued at the candidate price, the other side at its average.
new_exposure_of(m, side, quantity, price_cents) ==
    LET new_yes_value == IF side = "yes"
                         THEN Rat((m.yes_contracts + quantity) * price_cents, 1)
                         ELSE Rat(m.yes_contracts * m.avg_yes_price.n, m.avg_yes_price.d)
        new_no_value == IF side = "yes"
                        THEN Rat(m.no_contracts * m.avg_no_price.n, m.avg_no_price.d)
                        ELSE Rat((m.no_contracts + quantity) * price_cents, 1)
    IN Rat(Abs(new_yes_value.n * new_no_value.d - new_no_value.n * new_yes_value.d),
           new_yes_value.d * new_no_value.d)

\* A check that also rejects a projected exposure equal to the cap: C21 must
\* tell it from can_add_position.
can_add_position_below_cap(m, side, quantity, price_cents) ==
    LET new_exposure == new_exposure_of(m, side, quantity, price_cents)
    IN [allowed |-> new_exposure.n < m.max_exposure * new_exposure.d,
        new_exposure |-> new_exposure]

\* can_add_position: the side's whole count valued at the candidate price,
\* the other side at its average.
can_add_position(m, side, quantity, price_cents) ==
    LET new_exposure == new_exposure_of(m, side, quantity, price_cents)
    IN [allowed |-> ~(new_exposure.n > m.max_exposure * new_exposure.d),
        new_exposure |-> new_exposure]

\* add_position: the weighted average price of the side.  It divides by the
\* new count, so the count must be positive afterwards.
add_position(m, side, quantity, price_cents) ==
    IF side = "yes"
    THEN LET total_cost == Rat(m.yes_contracts * m.avg_yes_price.n
                               + quantity * price_cents * m.avg_yes_price.d,
                               m.avg_yes_price.d)
             n == m.yes_contracts + quantity
         IN [m EXCEPT !.yes_contracts = n,
                      !.avg_yes_price = Rat(total_cost.n, total_cost.d * n)]
    ELSE LET total_cost == Rat(m.no_contracts * m.avg_no_price.n
                               + quantity * price_cents * m.avg_no_price.d,
                               m.avg_no_price.d)
             n == m.no_contracts + quantity
         IN [m EXCEPT !.no_contracts = n,
                      !.avg_no_price = Rat(total_cost.n, total_cost.d * n)]

-----------------------------------------------------------------------------
(* Position sizing.  A size of 0 or more is a result; the sizers return     *)
(* [ok, size], ok = FALSE standing for ZeroDivisionError.                   *)

Clamp(position_size) ==
    Min(Max(MIN_POSITION_CONTRACTS, position_size), MAX_POSITION_CONTRACTS)

\* win_prob is the rational pn / pd.  With b = win / loss:
\*   (b p - (1 - p)) / b = (win pn - loss (pd - pn)) / (win pd),
\* halved, floored at 0, capped at 0.05 = 1 / 20;
\* int(balance * frac / ((win + loss) / 2)).
calculate_position_size_kelly(account_balance_cents, pn, pd, avg_win_cents, avg_loss_cents) ==
    IF avg_loss_cents <= 0 THEN [ok |-> TRUE, size |-> MIN_POSITION_CONTRACTS]
    ELSE IF avg_win_cents = 0 THEN [ok |-> FALSE, size |-> 0]
    ELSE LET kn0 == avg_win_cents * pn - avg_loss_cents * (pd - pn)
             kd0 == 2 * avg_win_cents * pd
             neg == (kn0 < 0) # (kd0 < 0)
             kn1 == IF neg THEN 0 ELSE Abs(kn0)
             kd1 == Abs(kd0)
             capped == kn1 * 20 > kd1
             kn == IF capped THEN 1 ELSE kn1
             kd == IF capped THEN 20 ELSE kd1
             sum == avg_win_cents + avg_loss_cents
         IN IF sum = 0 THEN [ok |-> FALSE, size |-> 0]
            ELSE [ok |-> TRUE,
                  size |-> Clamp(IF sum > 0
                                 THEN TruncDiv(2 * account_balance_cents * kn, kd * sum)
                                 ELSE TruncDiv(-2 * account_balance_cents * kn, kd * (-sum)))]

\* RISK_PER_TRADE_PCT = 0.01, average contract price 50:
\* int(balance * 0.01 / 50) = int(balance / 5000)
calculate_position_size_fixed_pct(account_balance_cents) ==
    [ok |-> TRUE, size |-> Clamp(TruncDiv(account_balance_cents, 5000))]

-----------------------------------------------------------------------------
(* TradingBot: pure parts *)

NoOpportunity ==
    [type |-> "none", buy_price |-> 0, sell_price |-> 0, spread |-> 0,
     fees |-> 0, net_profit |-> 0]

\* An opportunity whose net profit is the spread before fees: C23 must tell
\* it from Opportunity.
GrossOpportunity(type, bid, ask) ==
    [type |-> type, buy_price |-> bid, sell_price |-> ask, spread |-> ask - bid,
     fees |-> KALSHI_FEE_PER_CONTRACT * 2, net_profit |-> ask - bid]

\* Lines 324-336 and 342-354
Opportunity(type, bid, ask) ==
    [type |-> type, buy_price |-> bid, sell_price |-> ask, spread |-> ask - bid,
     fees |-> KALSHI_FEE_PER_CONTRACT * 2,
     net_profit |-> (ask - bid) - KALSHI_FEE_PER_CONTRACT * 2]

\* A side of the market has both quotes and a spread of min_spread or more
\* (lines 320-322, 339-341); a quote of 0 is falsy.
SideViable(bid, ask) ==
    /\ bid # 0
    /\ ask # 0
    /\ ask - bid >= KALSHI_FEE_PER_CONTRACT * 2 + MIN_PROFIT_CENTS

\* The side with the larger net profit preferred, yes on a tie: C24 must
\* tell it from calculate_spread.
calculate_spread_best_side(market) ==
    LET yes == SideViable(market.yes_bid, market.yes_ask)
        no == SideViable(market.no_bid, market.no_ask)
    IN IF yes /\ (~no \/ market.yes_ask - market.yes_bid >= market.no_ask - market.no_bid)
       THEN Opportunity("yes", market.yes_bid, market.yes_ask)
       ELSE IF no
       THEN Opportunity("no", market.no_bid, market.no_ask)
       ELSE NoOpportunity

\* calculate_spread: yes first, then no; a quote of 0 is no quote.
calculate_spread(market) ==
    IF SideViable(market.yes_bid, market.yes_ask)
    THEN Opportunity("yes", market.yes_bid, market.yes_ask)
    ELSE IF SideViable(market.no_bid, market.no_ask)
    THEN Opportunity("no", market.no_bid, market.no_ask)
    ELSE NoOpportunity

\* determine_position_size: edge = net_profit / buy_price raises on a zero
\* price; win_prob = 0.5 + edge / 2 = (buy_price + net_profit) / (2 buy_price).
\* use_kelly_sizing is the module's USE_KELLY_SIZING.
determine_position_size_with(use_kelly_sizing, account_balance_cents, opportunity) ==
    IF use_kelly_sizing
    THEN IF opportunity.buy_price = 0 THEN [ok |-> FALSE, size |-> 0]
         ELSE calculate_position_size_kelly(
                  account_balance_cents,
                  opportunity.buy_price + opportunity.net_profit,
                  2 * opportunity.buy_price,
                  opportunity.net_profit, opportunity.buy_price)
    ELSE calculate_position_size_fixed_pct(account_balance_cents)

determine_position_size(account_balance_cents, opportunity) ==
    determine_position_size_with(USE_KELLY_SIZING, account_balance_cents, opportunity)

-----------------------------------------------------------------------------
(* What the exchange may answer in the runs explored *)

OrderIds == {1, 2}
CashVals == {50000, 100000}

Market(id, volume, yes_bid, yes_ask, no_bid, no_ask) ==
    [id |-> id, volume |-> volume, yes_bid |-> yes_bid, yes_ask |-> yes_ask,
     no_bid |-> no_bid, no_ask |-> no_ask]

\* Liquid markets: no viable spread; a 5-cent yes spread; a yes ask of 100;
\* a wide no spread with the yes side unquoted.
Markets ==
    {Market("A", 5000, 40, 43, 30, 33),
     Market("B", 4000, 40, 45, 0, 0),
     Market("C", 3000, 60, 100, 0, 0),
     Market("D", 2000, 0, 0, 10, 30)}

OrderBodies == {OrderBody(i) : i \in OrderIds} \cup {OrderBody(0)}
PortfolioBodies ==
    {PortfolioBody("cash", c) : c \in CashVals} \cup {PortfolioBody("missing", 0)}
CancelBodies == {OrderBody(0)}

\* The exchange in the bot's runs: a request is answered at once (with a
\* body, with an empty body or with an HTTP error), or every attempt fails
\* with a connection error.  (A timeout, an unexpected exception and a
\* recovery on a later attempt are explored by ClientCancelOrder and
\* ClientGetBalance.)
PlainFailures == {"conn", "http"}
PlainScenarios(bodies) ==
    {s \in Scenarios(bodies, PlainFailures) : Len(s) = 1 \/ s[Len(s)].kind \in RetryKinds}

\* What a scan may return: at most MaxMarkets different liquid markets, by
\* volume, highest first.
ScanResults ==
    {s \in UNION {[1..n -> Markets] : n \in 0..MaxMarkets} :
        \A i \in 1..(Len(s) - 1) : s[i].volume > s[i + 1].volume}

\* What get_markets may list: the liquid markets and one whose volume is
\* the threshold itself; at most MaxMarkets of them, in any order.
ListedMarkets == Markets \cup {Market("E", MIN_VOLUME_THRESHOLD, 40, 45, 0, 0)}
Listings ==
    {s \in UNION {[1..n -> ListedMarkets] : n \in 0..MaxMarkets} :
        \A i, j \in 1..Len(s) : i # j => s[i].id # s[j].id}

\* liquid.sort(key=volume, reverse=True), line 301: a stable sort
RECURSIVE InsertByVolume(_, _)
InsertByVolume(m, s) ==
    IF s = <<>> THEN <<m>>
    ELSE IF m.volume >= Head(s).volume THEN <<m>> \o s
    ELSE <<Head(s)>> \o InsertByVolume(m, Tail(s))

RECURSIVE SortByVolume(_)
SortByVolume(s) ==
    IF s = <<>> THEN <<>> ELSE InsertByVolume(Head(s), SortByVolume(Tail(s)))

\* A scan that a failing detail lookup ends: C26 must tell it from
\* get_liquid_markets.
RECURSIVE get_liquid_markets_until_failure(_, _)
get_liquid_markets_until_failure(listed, failed) ==
    IF listed = <<>> \/ Head(listed).id \in failed THEN <<>>
    ELSE InsertByVolume(Head(listed),
                        get_liquid_markets_until_failure(Tail(listed), failed))

\* get_liquid_markets, lines 277-303, for the markets listed and the set of
\* those whose get_market lookup raises: a failing lookup skips its market
\* (lines 298-299), a volume of MIN_VOLUME_THRESHOLD or less leaves it out,
\* the rest is sorted by volume and cut to ten.
get_liquid_markets(listed, failed) ==
    LET liquid == SortByVolume(
                      SelectSeq(listed, LAMBDA m : /\ m.id \notin failed
                                                   /\ m.volume > MIN_VOLUME_THRESHOLD))
    IN SubSeq(liquid, 1, Min(Len(liquid), 10))

\* ret after a scan
Scanned(listed, failed, raised) ==
    [op |-> "get_liquid_markets", listed |-> listed, failed |-> failed,
     raised |-> raised]

-----------------------------------------------------------------------------
(* TradingBot: state *)

\* No _get_token call in progress
NoThreads == <<>>

\* ret when no client call was made
NoCall ==
    [op |-> "", side |-> "", price |-> 0, count |-> 0, type |-> "", order_id |-> 0,
     outs |-> <<>>, res |-> NoRequest([last_token |-> NoToken, token_expires |-> 0], "").res,
     minted |-> FALSE]

NotCalled == [called |-> FALSE, ok |-> FALSE, exc |-> "", body |-> NoBody]
Called(q) == [called |-> TRUE, ok |-> q.res.ok, exc |-> q.res.exc, body |-> q.res.body]

NoResult == [some |-> FALSE, expected_profit |-> 0, position_size |-> 0]

NoMarket == Market("", 0, 0, 0, 0, 0)

NoFrame ==
    [market |-> NoMarket, opportunity |-> NoOpportunity, account_balance_cents |-> 0,
     position_size |-> 0, gate |-> "", buy |-> NotCalled, sell |-> NotCalled,
     orders |-> <<>>, cancels |-> <<>>, result |-> NoResult,
     pre_inv |-> InventoryManager(MAX_EXPOSURE_CENTS), pre_cb |-> CircuitBreaker(0)]

NoCycle == [markets |-> <<>>, profits |-> <<>>]

DefaultState == [last_check |-> None, total_trades |-> 0, total_profit |-> 0]

\* TradingBot.__init__: the breaker starts from the balance fetched at
\* construction (0 when the fetch fails); that fetch mints the first token.
Init ==
    /\ now = 0
    /\ today = 0
    /\ client = _get_token([last_token |-> NoToken, token_expires |-> 0], 0)
    /\ http = <<>>
    /\ ret = NoCall
    /\ \E start \in {0, 100000} : cb = CircuitBreaker(start)
    /\ inv = InventoryManager(MAX_EXPOSURE_CENTS)
    /\ state = [mem |-> DefaultState, saved |-> DefaultState]
    /\ pc = "idle"
    /\ cycle = NoCycle
    /\ frame = NoFrame
    /\ threads = NoThreads

-----------------------------------------------------------------------------
(* TradingBot.run_once *)

\* Lines 487-497: the balance for the log line.  A failure ends the cycle in
\* the except clause.
RunOnceBalance ==
    /\ pc = "idle"
    /\ \E outs \in PlainScenarios(PortfolioBodies) :
         \E q \in {get_balance(client, now, outs)} :
            /\ now + q.res.elapsed <= MaxTime
            /\ now' = now + q.res.elapsed
            /\ client' = q.client
            /\ http' = q.sent
            /\ pc' = IF q.res.ok THEN "scan" ELSE "wait"
    /\ cycle' = NoCycle
    /\ frame' = NoFrame
    /\ UNCHANGED <<today, ret, cb, inv, state, threads>>

\* Lines 499-507: get_liquid_markets on what the exchange lists, with any
\* of the detail lookups failing, or the KalshiAPIError get_markets lets
\* through; no markets ends the cycle.
Scan ==
    /\ pc = "scan"
    /\ client' = _get_token(client, now)
    /\ \/ \E listed \in Listings :
          \E failed \in SUBSET {listed[i].id : i \in 1..Len(listed)} :
          \E found \in {get_liquid_markets(listed, failed)} :
            /\ ret' = Scanned(listed, failed, FALSE)
            /\ cycle' = [markets |-> SubSeq(found, 1, Min(Len(found), MARKETS_PER_CYCLE)),
                         profits |-> <<>>]
            /\ pc' = IF Len(found) = 0 THEN "wait" ELSE "market"
       \/ /\ ret' = Scanned(<<>>, {}, TRUE)
          /\ cycle' = NoCycle
          /\ pc' = "wait"
    /\ UNCHANGED <<now, today, http, cb, inv, state, frame, threads>>

-----------------------------------------------------------------------------
(* TradingBot.place_market_making_orders *)

\* The profit before fees, as trading_bot.py line 298 has it: C7 must tell
\* it from ExpectedProfit.
GrossProfit(opportunity, position_size) == opportunity.spread * position_size

\* Line 461
ExpectedProfit(opportunity, position_size) == opportunity.net_profit * position_size

\* Lines 438-445: the hedge is on the other side, at 100 - sell_price
HedgeSide(opportunity) == IF opportunity.type = "yes" THEN "no" ELSE "yes"
HedgePrice(opportunity) == 100 - opportunity.sell_price

\* An except clause without the cancel loop: C2 must tell it from
\* AfterOrderError.
ReturnAfterOrderError(orders) == "returned"

\* Lines 472-480, the except clause: the cancel loop runs once per order in
\* orders, and straight to "return None" when there is none.
AfterOrderError(orders) == IF Len(orders) = 0 THEN "returned" ELSE "cancel"

\* Lines 376-415: the spread, the balance, the size and the two gates.
\* gate tells how far the call got; a sizing error leaves the call and the
\* cycle through run_once's except clause.
PlaceBegin ==
    /\ pc = "market"
    /\ LET market == Head(cycle.markets)
           opportunity == calculate_spread(market)
           f0 == [NoFrame EXCEPT !.market = market, !.opportunity = opportunity,
                                 !.pre_inv = inv, !.pre_cb = cb]
       IN IF opportunity.type = "none"
          THEN /\ frame' = [f0 EXCEPT !.gate = "no_opportunity"]
               /\ pc' = "returned"
               /\ http' = <<>>
               /\ UNCHANGED <<now, client, cb, threads>>
          ELSE \E outs \in PlainScenarios(PortfolioBodies) :
               \E q \in {get_balance(client, now, outs)} :
               \E t \in {now + q.res.elapsed} :
               \E account_balance_cents \in {Cash(q.res.body)} :
               \E sized \in {determine_position_size(account_balance_cents, opportunity)} :
               \E position_size \in {sized.size} :
               \E chk \in {check_trade_allowed(cb, today, t, account_balance_cents,
                                                opportunity.buy_price * position_size)} :
               \E can \in {can_add_position(inv, opportunity.type, position_size,
                                             opportunity.buy_price)} :
               \E f1 \in {[f0 EXCEPT !.account_balance_cents = account_balance_cents,
                                      !.position_size = position_size]} :
                    /\ t <= MaxTime
                    /\ now' = t
                    /\ client' = q.client
                    /\ http' = q.sent
                    /\ IF ~q.res.ok
                       THEN /\ frame' = [f0 EXCEPT !.gate = "no_balance"]
                            /\ pc' = "returned"
                            /\ cb' = cb
                       ELSE IF ~sized.ok
                       THEN /\ frame' = [f1 EXCEPT !.gate = "sizing_error"]
                            /\ pc' = "wait"
                            /\ cb' = cb
                       ELSE IF ~chk.allowed
                       THEN /\ frame' = [f1 EXCEPT !.gate = "circuit_breaker"]
                            /\ pc' = "returned"
                            /\ cb' = chk.cb
                       ELSE IF ~can.allowed
                       THEN /\ frame' = [f1 EXCEPT !.gate = "inventory"]
                            /\ pc' = "returned"
                            /\ cb' = chk.cb
                       ELSE /\ frame' = [f1 EXCEPT !.gate = "passed"]
                            /\ pc' = "primary"
                            /\ cb' = chk.cb
    /\ ret' = NoCall
    /\ UNCHANGED <<today, inv, state, cycle, threads>>

\* Lines 417-433: the buy order at buy_price + 1.  Whatever place_order
\* returns is appended to orders; an exception reaches the except clause
\* with orders empty, so nothing is cancelled and None is returned.
Primary ==
    /\ pc = "primary"
    /\ \E outs \in PlainScenarios(OrderBodies) :
         \E buy_price \in {frame.opportunity.buy_price + 1} :
         \E q \in {place_order(client, now, frame.opportunity.type, buy_price,
                                frame.position_size, "limit", outs)} :
            /\ now + q.res.elapsed <= MaxTime
            /\ now' = now + q.res.elapsed
            /\ client' = q.client
            /\ http' = http \o q.sent
            /\ IF q.res.ok
               THEN /\ frame' = [frame EXCEPT !.buy = Called(q),
                                              !.orders = Append(@, q.res.body)]
                    /\ pc' = "hedge"
               ELSE /\ frame' = [frame EXCEPT !.buy = Called(q)]
                    /\ pc' = AfterOrderError(frame.orders)
    /\ UNCHANGED <<today, ret, cb, inv, state, cycle, threads>>

\* Lines 435-470: the hedge on the other side at 100 - sell_price, then
\* record_order and the result.  An exception goes on to the cancel loop.
Hedge ==
    /\ pc = "hedge"
    /\ \E outs \in PlainScenarios(OrderBodies) :
         \E hedge_side \in {HedgeSide(frame.opportunity)} :
         \E hedge_price \in {HedgePrice(frame.opportunity)} :
         \E q \in {place_order(client, now, hedge_side, hedge_price,
                                frame.position_size, "limit", outs)} :
         \E t \in {now + q.res.elapsed} :
         \E expected_profit \in {ExpectedProfit(frame.opportunity, frame.position_size)} :
            /\ t <= MaxTime
            /\ now' = t
            /\ client' = q.client
            /\ http' = http \o q.sent
            /\ IF q.res.ok
               THEN /\ frame' = [frame EXCEPT
                                   !.sell = Called(q),
                                   !.orders = Append(@, q.res.body),
                                   !.result = [some |-> TRUE,
                                               expected_profit |-> expected_profit,
                                               position_size |-> frame.position_size]]
                    /\ cb' = record_order(cb, t)
                    /\ pc' = "returned"
               ELSE /\ frame' = [frame EXCEPT !.sell = Called(q)]
                    /\ cb' = cb
                    /\ pc' = AfterOrderError(frame.orders)
    /\ UNCHANGED <<today, ret, inv, state, cycle, threads>>

\* Lines 472-480: cancel_order for the next order of orders, whatever its
\* 'order_id' (None when it has none); any failure is swallowed.  After the
\* last one the call returns None.
Cancel ==
    /\ pc = "cancel"
    /\ \E outs \in PlainScenarios(CancelBodies) :
         \E order \in {frame.orders[Len(frame.cancels) + 1]} :
         \E q \in {cancel_order(client, now, order.order_id, outs)} :
            /\ now + q.res.elapsed <= MaxTime
            /\ now' = now + q.res.elapsed
            /\ client' = q.client
            /\ http' = http \o q.sent
            /\ frame' = [frame EXCEPT
                           !.cancels = Append(@, [order_id |-> order.order_id,
                                                  ok |-> q.res.ok])]
            /\ pc' = IF Len(frame.cancels) + 1 = Len(frame.orders)
                     THEN "returned" ELSE "cancel"
    /\ UNCHANGED <<today, ret, cb, inv, state, cycle, threads>>

-----------------------------------------------------------------------------
(* TradingBot.run_once, continued, and run *)

\* Lines 510-514: the result of one market, then the one-second pause.
AfterMarket ==
    /\ pc = "returned"
    /\ now + MARKET_SLEEP_SECONDS <= MaxTime
    /\ now' = now + MARKET_SLEEP_SECONDS
    /\ cycle' = [markets |-> Tail(cycle.markets),
                 profits |-> IF frame.result.some
                             THEN Append(cycle.profits, frame.result.expected_profit)
                             ELSE cycle.profits]
    /\ pc' = IF Len(cycle.markets) = 1 THEN "summary" ELSE "market"
    /\ frame' = NoFrame
    /\ http' = <<>>
    /\ UNCHANGED <<today, client, ret, cb, inv, state, threads>>

\* A summary that counts the cycle, not its results: C29 must tell it from
\* Summary.
SummaryCountingCycles ==
    /\ pc = "summary"
    /\ LET mem == [state.mem EXCEPT
                     !.total_trades = @ + (IF cycle.profits = <<>> THEN 0 ELSE 1),
                     !.last_check = now]
       IN state' = [mem |-> mem, saved |-> mem]
    /\ pc' = "wait"
    /\ UNCHANGED <<now, today, client, http, ret, cb, inv, cycle, frame, threads>>

\* Lines 516-529: total_trades grows by the number of results; last_check
\* is set; the state is saved.
Summary ==
    /\ pc = "summary"
    /\ LET mem == [state.mem EXCEPT
                     !.total_trades = @ + Len(cycle.profits),
                     !.last_check = now]
       IN state' = [mem |-> mem, saved |-> mem]
    /\ pc' = "wait"
    /\ UNCHANGED <<now, today, client, http, ret, cb, inv, cycle, frame, threads>>

\* run, lines 539-543: the five-minute sleep after run_once returns.
Wait ==
    /\ pc = "wait"
    /\ now + CYCLE_SLEEP_SECONDS <= MaxTime
    /\ now' = now + CYCLE_SLEEP_SECONDS
    /\ pc' = "idle"
    /\ ret' = NoCall
    /\ UNCHANGED <<today, client, http, cb, inv, state, cycle, frame, threads>>

\* The local date changes.  The date is read by check_trade_allowed alone,
\* at the start of a market's handling, so a change at any earlier moment
\* shows as a change here.
Midnight ==
    /\ pc \in {"idle", "market"}
    /\ today < MaxDay
    /\ today' = today + 1
    /\ UNCHANGED <<now, client, http, ret, cb, inv, state, pc, cycle, frame, threads>>

Next ==
    \/ RunOnceBalance
    \/ Scan
    \/ PlaceBegin
    \/ Primary
    \/ Hedge
    \/ Cancel
    \/ AfterMarket
    \/ Summary
    \/ Wait
    \/ Midnight

Spec == Init /\ [][Next]_vars

-----------------------------------------------------------------------------
(* KalshiClient used on its own: any caller, any arguments *)

Sides == {"yes", "no", "maybe"}
Prices == {0, 1, 99, 100}
Counts == {0, 1}
OrderTypes == {"limit", "market", "stop"}
AllFailures == {"conn", "timeout", "http", "badjson", "other"}
AllPortfolioBodies ==
    PortfolioBodies \cup {PortfolioBody("not_dict", 0), PortfolioBody("empty", 0),
                          PortfolioBody("no_cash", 0)}

\* A client just constructed: no token yet.
ClientInit ==
    /\ now = 0
    /\ today = 0
    /\ client = [last_token |-> NoToken, token_expires |-> 0]
    /\ http = <<>>
    /\ ret = NoCall
    /\ cb = CircuitBreaker(0)
    /\ inv = InventoryManager(MAX_EXPOSURE_CENTS)
    /\ state = [mem |-> DefaultState, saved |-> DefaultState]
    /\ pc = "client"
    /\ cycle = NoCycle
    /\ frame = NoFrame
    /\ threads = NoThreads

\* A call made and returned; ret and http keep what it did until the caller
\* has looked at them.
Returned(op, side, price, count, type, order_id, outs, q) ==
    /\ now + q.res.elapsed <= MaxClientTime
    /\ now' = now + q.res.elapsed
    /\ client' = q.client
    /\ http' = q.sent
    /\ ret' = [op |-> op, side |-> side, price |-> price, count |-> count,
               type |-> type, order_id |-> order_id, outs |-> outs, res |-> q.res,
               minted |-> q.minted]
    /\ pc' = "client_returned"
    /\ UNCHANGED <<today, cb, inv, state, cycle, frame, threads>>

\* The caller goes on to its next call.
ClientGoesOn ==
    /\ pc = "client_returned"
    /\ pc' = "client"
    /\ ret' = NoCall
    /\ http' = <<>>
    /\ UNCHANGED <<now, today, client, cb, inv, state, cycle, frame, threads>>

ClientPlaceOrder ==
    /\ pc = "client"
    /\ \E side \in Sides, price \in Prices, count \in Counts, type \in OrderTypes :
       \E outs \in PlainScenarios(OrderBodies) :
          Returned("place_order", side, price, count, type, 0, outs,
                   place_order(client, now, side, price, count, type, outs))

ClientCancelOrder ==
    /\ pc = "client"
    /\ \E order_id \in OrderIds \cup {0} :
       \E outs \in Scenarios(CancelBodies, AllFailures) :
          Returned("cancel_order", "", 0, 0, "", order_id, outs,
                   cancel_order(client, now, order_id, outs))

ClientGetBalance ==
    /\ pc = "client"
    /\ \E outs \in Scenarios(AllPortfolioBodies, AllFailures) :
          Returned("get_balance", "", 0, 0, "", 0, outs,
                   get_balance(client, now, outs))

\* The reads other than get_balance
ReadOps == {"get_markets", "get_market", "get_portfolio", "get_open_orders",
            "get_positions"}

ListKeys == {"missing", "not_list", "list"}

ReadBodies(op) ==
    CASE op = "get_markets" ->
           {ListBody("markets", k, 0) : k \in ListKeys} \cup {ListBody("markets", "list", 2)}
      [] op = "get_market" -> {MarketBody(5000)}
      [] op = "get_portfolio" -> AllPortfolioBodies
      [] op = "get_open_orders" -> {ListBody("orders", k, 0) : k \in ListKeys}
      [] OTHER -> {ListBody("positions", k, 0) : k \in ListKeys}

Read(op, c, t, outs) ==
    CASE op = "get_markets" -> get_markets(c, t, outs)
      [] op = "get_market" -> get_market(c, t, outs)
      [] op = "get_portfolio" -> get_portfolio(c, t, outs)
      [] op = "get_open_orders" -> get_open_orders(c, t, outs)
      [] OTHER -> get_positions(c, t, outs)

ClientRead ==
    /\ pc = "client"
    /\ \E op \in ReadOps :
       \E outs \in Scenarios(ReadBodies(op), AllFailures) :
          Returned(op, "", 0, 0, "", 0, outs, Read(op, client, now, outs))

ClientNext ==
    \/ ClientPlaceOrder
    \/ ClientRead
    \/ ClientCancelOrder
    \/ ClientGetBalance
    \/ ClientGoesOn

SpecClient == ClientInit /\ [][ClientNext]_vars

-----------------------------------------------------------------------------
(* KalshiClient._get_token called on its own, one call after the other *)

\* The seconds that may go by between two calls
TokenSteps == {59, 60, 61}

NoTokenCall ==
    [op |-> "", at |-> 0, before |-> [last_token |-> NoToken, token_expires |-> 0],
     token |-> NoToken]

TokenInit ==
    /\ now = 0
    /\ today = 0
    /\ client = [last_token |-> NoToken, token_expires |-> 0]
    /\ http = <<>>
    /\ ret = NoTokenCall
    /\ cb = CircuitBreaker(0)
    /\ inv = InventoryManager(MAX_EXPOSURE_CENTS)
    /\ state = [mem |-> DefaultState, saved |-> DefaultState]
    /\ pc = "token"
    /\ cycle = NoCycle
    /\ frame = NoFrame
    /\ threads = NoThreads

\* One call of _get_token: ret keeps the time of the call, the cache as the
\* call found it and the token returned.
TokenCall ==
    /\ pc = "token"
    /\ \E c1 \in {_get_token(client, now)} :
          /\ client' = c1
          /\ ret' = [op |-> "_get_token", at |-> now, before |-> client,
                     token |-> c1.last_token]
    /\ UNCHANGED <<now, today, http, cb, inv, state, pc, cycle, frame, threads>>

TokenTick ==
    /\ pc = "token"
    /\ \E d \in TokenSteps :
          /\ now + d <= MaxTokenTime
          /\ now' = now + d
    /\ UNCHANGED <<today, client, http, ret, cb, inv, state, pc, cycle, frame, threads>>

TokenNext ==
    \/ TokenCall
    \/ TokenTick

SpecToken == TokenInit /\ [][TokenNext]_vars

-----------------------------------------------------------------------------
(* KalshiClient._get_token called by two threads that share one client.    *)
(* The method takes no lock; each step below is one read or one write of   *)
(* the shared fields, and the threads' steps interleave freely.            *)

Callers == {1, 2}

NoThread == [pc |-> "idle", now |-> 0, token |-> NoToken, minted |-> FALSE]

RaceInit ==
    /\ now = 0
    /\ today = 0
    /\ client = [last_token |-> NoToken, token_expires |-> 0]
    /\ http = <<>>
    /\ ret = NoCall
    /\ cb = CircuitBreaker(0)
    /\ inv = InventoryManager(MAX_EXPOSURE_CENTS)
    /\ state = [mem |-> DefaultState, saved |-> DefaultState]
    /\ pc = "race"
    /\ cycle = NoCycle
    /\ frame = NoFrame
    /\ threads = [i \in Callers |-> NoThread]

RaceFrame == UNCHANGED <<now, today, http, ret, cb, inv, state, pc, cycle, frame>>

\* Line 127: now = int(time.time())
RaceReadClock(i) ==
    /\ threads[i].pc = "idle"
    /\ threads' = [threads EXCEPT ![i].pc = "last_token", ![i].now = now]
    /\ client' = client
    /\ RaceFrame

\* Line 130, first operand: self.last_token
RaceTestToken(i) ==
    /\ threads[i].pc = "last_token"
    /\ threads' = [threads EXCEPT ![i].pc = IF client.last_token # NoToken
                                            THEN "token_expires" ELSE "sign"]
    /\ client' = client
    /\ RaceFrame

\* Line 130, second operand: self.token_expires
RaceTestExpires(i) ==
    /\ threads[i].pc = "token_expires"
    /\ threads' = [threads EXCEPT ![i].pc = IF client.token_expires # 0
                                            THEN "compare" ELSE "sign"]
    /\ client' = client
    /\ RaceFrame

\* Line 130, third operand: now < self.token_expires - TOKEN_BUFFER_SECONDS
RaceCompare(i) ==
    /\ threads[i].pc = "compare"
    /\ threads' = [threads EXCEPT
                     ![i].pc = IF threads[i].now < client.token_expires - TOKEN_BUFFER_SECONDS
                               THEN "reuse" ELSE "sign"]
    /\ client' = client
    /\ RaceFrame

\* Line 131: return self.last_token
RaceReuse(i) ==
    /\ threads[i].pc = "reuse"
    /\ threads' = [threads EXCEPT ![i].pc = "done", ![i].token = client.last_token]
    /\ client' = client
    /\ RaceFrame

\* Lines 134-141: the payload and its signature; the token is named by iat
RaceSign(i) ==
    /\ threads[i].pc = "sign"
    /\ threads' = [threads EXCEPT ![i].pc = "store_token", ![i].token = threads[i].now,
                                  ![i].minted = TRUE]
    /\ client' = client
    /\ RaceFrame

\* Line 143: self.last_token = token
RaceStoreToken(i) ==
    /\ threads[i].pc = "store_token"
    /\ client' = [client EXCEPT !.last_token = threads[i].token]
    /\ threads' = [threads EXCEPT ![i].pc = "store_expires"]
    /\ RaceFrame

\* Lines 144-146: self.token_expires = now + TOKEN_EXPIRY_SECONDS; return
RaceStoreExpires(i) ==
    /\ threads[i].pc = "store_expires"
    /\ client' = [client EXCEPT !.token_expires = threads[i].now + TOKEN_EXPIRY_SECONDS]
    /\ threads' = [threads EXCEPT ![i].pc = "done"]
    /\ RaceFrame

RaceTick ==
    /\ pc = "race"
    /\ now < MaxRaceTime
    /\ now' = now + 1
    /\ UNCHANGED <<today, client, http, ret, cb, inv, state, pc, cycle, frame, threads>>

RaceNext ==
    \/ \E i \in Callers : RaceReadClock(i)
    \/ \E i \in Callers : RaceTestToken(i)
    \/ \E i \in Callers : RaceTestExpires(i)
    \/ \E i \in Callers : RaceCompare(i)
    \/ \E i \in Callers : RaceReuse(i)
    \/ \E i \in Callers : RaceSign(i)
    \/ \E i \in Callers : RaceStoreToken(i)
    \/ \E i \in Callers : RaceStoreExpires(i)
    \/ RaceTick

SpecTokenRace == RaceInit /\ [][RaceNext]_vars

-----------------------------------------------------------------------------
(* CircuitBreaker used on its own: checks with any balance and position     *)
(* value, an order recorded after an accepting check, losses recorded,      *)
(* the clock and the date moving on.                                        *)

BreakerBalances == {0, 8900, 9000, 10000}
BreakerPositionValues == {10000, 10001}
BreakerLosses == {-DAILY_LOSS_LIMIT_CENTS - 1, -DAILY_LOSS_LIMIT_CENTS}
BreakerSteps == {30}

NoCheck ==
    [op |-> "", before |-> CircuitBreaker(0), date |-> 0, at |-> 0,
     current_balance |-> 0, position_value |-> 0, allowed |-> FALSE, reason |-> ""]

\* A breaker as TradingBot.__init__ leaves it: start and peak at the balance
\* fetched, or at 0.
BreakerInit ==
    /\ now = 0
    /\ today = 0
    /\ client = [last_token |-> NoToken, token_expires |-> 0]
    /\ http = <<>>
    /\ ret = NoCheck
    /\ \E start \in {0, 10000} : cb = CircuitBreaker(start)
    /\ inv = InventoryManager(MAX_EXPOSURE_CENTS)
    /\ state = [mem |-> DefaultState, saved |-> DefaultState]
    /\ pc = "breaker"
    /\ cycle = NoCycle
    /\ frame = NoFrame
    /\ threads = NoThreads

\* One call of check_trade_allowed; ret keeps the breaker as the call found
\* it, the call's inputs and its verdict.
BreakerCheck ==
    /\ pc = "breaker"
    /\ \E current_balance \in BreakerBalances, position_value \in BreakerPositionValues :
       \E chk \in {check_trade_allowed(cb, today, now, current_balance, position_value)} :
          /\ cb' = chk.cb
          /\ ret' = [op |-> "check_trade_allowed", before |-> cb, date |-> today,
                     at |-> now, current_balance |-> current_balance,
                     position_value |-> position_value,
                     allowed |-> chk.allowed, reason |-> chk.reason]
    /\ pc' = "breaker_checked"
    /\ UNCHANGED <<now, today, client, http, inv, state, cycle, frame, threads>>

\* record_order, called as place_market_making_orders calls it: after a
\* check that allowed the trade.
BreakerRecordOrder ==
    /\ pc = "breaker_checked"
    /\ ret.allowed
    /\ cb' = record_order(cb, now)
    /\ ret' = NoCheck
    /\ pc' = "breaker"
    /\ UNCHANGED <<now, today, client, http, inv, state, cycle, frame, threads>>

\* The caller goes on without an order.
BreakerGoesOn ==
    /\ pc = "breaker_checked"
    /\ ret' = NoCheck
    /\ pc' = "breaker"
    /\ UNCHANGED <<now, today, client, http, cb, inv, state, cycle, frame, threads>>

\* record_pnl with a loss, on a breaker whose daily P&L is 0.
BreakerRecordPnl ==
    /\ pc = "breaker"
    /\ cb.daily_pnl = 0
    /\ \E pnl_cents \in BreakerLosses : cb' = record_pnl(cb, pnl_cents)
    /\ UNCHANGED <<now, today, client, http, ret, inv, state, pc, cycle, frame, threads>>

BreakerTick ==
    /\ \E d \in BreakerSteps :
          /\ now + d <= MaxBreakerTime
          /\ now' = now + d
    /\ UNCHANGED <<today, client, http, ret, cb, inv, state, pc, cycle, frame, threads>>

\* The date changes between two calls.
BreakerMidnight ==
    /\ pc = "breaker"
    /\ today < MaxBreakerDay
    /\ today' = today + 1
    /\ UNCHANGED <<now, client, http, ret, cb, inv, state, pc, cycle, frame, threads>>

BreakerNext ==
    \/ BreakerCheck
    \/ BreakerRecordOrder
    \/ BreakerGoesOn
    \/ BreakerRecordPnl
    \/ BreakerTick
    \/ BreakerMidnight

SpecBreaker == BreakerInit /\ [][BreakerNext]_vars

-----------------------------------------------------------------------------
(* InventoryManager used on its own: any caller, who records a position     *)
(* only after can_add_position accepted it, with the same arguments.        *)

MaxInvContracts == 250   \* contracts held, both sides together

InvQuantities == {50, 100}
InvPrices == {1, 50, 100}

NoInvCheck ==
    [op |-> "", before |-> InventoryManager(MAX_EXPOSURE_CENTS), side |-> "",
     quantity |-> 0, price_cents |-> 0, allowed |-> FALSE,
     new_exposure |-> Rat(0, 1)]

InventoryInit ==
    /\ now = 0
    /\ today = 0
    /\ client = [last_token |-> NoToken, token_expires |-> 0]
    /\ http = <<>>
    /\ ret = NoInvCheck
    /\ cb = CircuitBreaker(0)
    /\ inv = InventoryManager(MAX_EXPOSURE_CENTS)
    /\ state = [mem |-> DefaultState, saved |-> DefaultState]
    /\ pc = "inventory"
    /\ cycle = NoCycle
    /\ frame = NoFrame
    /\ threads = NoThreads

InventoryFrame == UNCHANGED <<now, today, client, http, cb, state, cycle, frame, threads>>

\* can_add_position(side, quantity, price_cents): assigns no field
InventoryCheck ==
    /\ pc = "inventory"
    /\ \E side \in {"yes", "no"}, quantity \in InvQuantities, price_cents \in InvPrices :
       \E can \in {can_add_position(inv, side, quantity, price_cents)} :
          ret' = [op |-> "can_add_position", before |-> inv, side |-> side,
                  quantity |-> quantity, price_cents |-> price_cents,
                  allowed |-> can.allowed, new_exposure |-> can.new_exposure]
    /\ pc' = "inventory_checked"
    /\ inv' = inv
    /\ InventoryFrame

\* add_position with the arguments of the accepting check just made
InventoryAdd ==
    /\ pc = "inventory_checked"
    /\ ret.allowed
    /\ inv.yes_contracts + inv.no_contracts + ret.quantity <= MaxInvContracts
    /\ inv' = add_position(inv, ret.side, ret.quantity, ret.price_cents)
    /\ ret' = NoInvCheck
    /\ pc' = "inventory"
    /\ InventoryFrame

\* The caller goes on without recording a position.
InventoryGoesOn ==
    /\ pc = "inventory_checked"
    /\ ret' = NoInvCheck
    /\ pc' = "inventory"
    /\ inv' = inv
    /\ InventoryFrame

InventoryNext ==
    \/ InventoryCheck
    \/ InventoryAdd
    \/ InventoryGoesOn

SpecInventory == InventoryInit /\ [][InventoryNext]_vars

-----------------------------------------------------------------------------
(* calculate_spread on its own, on any four quotes *)

\* Quotes in cents; 0 is also what a missing quote reads as (lines 310-313)
SpreadQuotes == {0, 1, 30, 33, 35, 40, 43, 45, 100}

SpreadInit ==
    /\ now = 0
    /\ today = 0
    /\ client = [last_token |-> NoToken, token_expires |-> 0]
    /\ http = <<>>
    /\ ret = NoCall
    /\ cb = CircuitBreaker(0)
    /\ inv = InventoryManager(MAX_EXPOSURE_CENTS)
    /\ state = [mem |-> DefaultState, saved |-> DefaultState]
    /\ pc = "spread"
    /\ cycle = NoCycle
    /\ \E yes_bid \in SpreadQuotes, yes_ask \in SpreadQuotes,
          no_bid \in SpreadQuotes, no_ask \in SpreadQuotes :
          frame = [NoFrame EXCEPT
                     !.market = Market("M", 5000, yes_bid, yes_ask, no_bid, no_ask)]
    /\ threads = NoThreads

SpreadEvaluate ==
    /\ pc = "spread"
    /\ frame' = [frame EXCEPT !.opportunity = calculate_spread(frame.market)]
    /\ pc' = "spread_done"
    /\ UNCHANGED <<now, today, client, http, ret, cb, inv, state, cycle, threads>>

SpecSpread == SpreadInit /\ [][SpreadEvaluate]_vars

-----------------------------------------------------------------------------
(* The position sizers on their own, on any balance and opportunity *)

SizerBalances == {-5000, 0, 1, 5000, 50000, 1000000, 100000000}
SizerPrices == {0, 1, 40, 99}
SizerProfits == {0, 1, 5, 96}
SizerWinProbs == {0, 1, 2}      \* win_prob, in halves

SizerInit ==
    /\ now = 0
    /\ today = 0
    /\ client = [last_token |-> NoToken, token_expires |-> 0]
    /\ http = <<>>
    /\ \E balance \in SizerBalances, buy_price \in SizerPrices,
          net_profit \in SizerProfits, halves \in SizerWinProbs :
          ret = [op |-> "", use_kelly_sizing |-> FALSE,
                 account_balance_cents |-> balance, buy_price |-> buy_price,
                 net_profit |-> net_profit, win_prob_halves |-> halves,
                 ok |-> FALSE, size |-> 0]
    /\ cb = CircuitBreaker(0)
    /\ inv = InventoryManager(MAX_EXPOSURE_CENTS)
    /\ state = [mem |-> DefaultState, saved |-> DefaultState]
    /\ pc = "sizer"
    /\ cycle = NoCycle
    /\ frame = NoFrame
    /\ threads = NoThreads

\* The call named op made with the arguments drawn, and what it gave
Sized(op, use_kelly_sizing, sized) ==
    /\ pc = "sizer"
    /\ ret' = [ret EXCEPT !.op = op, !.use_kelly_sizing = use_kelly_sizing,
                          !.ok = sized.ok, !.size = sized.size]
    /\ pc' = "sized"
    /\ UNCHANGED <<now, today, client, http, cb, inv, state, cycle, frame, threads>>

SizerDetermine ==
    \E use_kelly_sizing \in BOOLEAN :
        Sized("determine_position_size", use_kelly_sizing,
              determine_position_size_with(
                  use_kelly_sizing, ret.account_balance_cents,
                  [NoOpportunity EXCEPT !.buy_price = ret.buy_price,
                                        !.net_profit = ret.net_profit]))

SizerKelly ==
    Sized("calculate_position_size_kelly", TRUE,
          calculate_position_size_kelly(ret.account_balance_cents, ret.win_prob_halves, 2,
                                        ret.net_profit, ret.buy_price))

SizerFixedPct ==
    Sized("calculate_position_size_fixed_pct", FALSE,
          calculate_position_size_fixed_pct(ret.account_balance_cents))

SizerNext ==
    \/ SizerDetermine
    \/ SizerKelly
    \/ SizerFixedPct

SpecSizer == SizerInit /\ [][SizerNext]_vars

-----------------------------------------------------------------------------
(* TradingBot.run as a loop that never ends by itself: the control flow of  *)
(* run, run_once and place_market_making_orders, each call either returning *)
(* or raising, and a KeyboardInterrupt raised wherever the thread stands    *)
(* when the signal arrives.  The clock is left out, so that the loop can go *)
(* round for ever; what a sleep lasted is kept in ret.slept.                *)

MaxRunMarkets == 2   \* markets a scan selects in the runs of the loop

\* Line 550 after line 548, and lines 545-547
BACKOFF_SLEEP_SECONDS == 60

NoRun == [ended |-> "", slept |-> 0, interrupted |-> FALSE, stopped_at |-> ""]
NoSequence == [orders |-> <<>>, cancels |-> 0, result |-> FALSE]
RunCycle(markets, profits) == [markets |-> markets, profits |-> profits]

RunInit ==
    /\ now = 0
    /\ today = 0
    /\ client = [last_token |-> NoToken, token_expires |-> 0]
    /\ http = <<>>
    /\ ret = NoRun
    /\ cb = CircuitBreaker(0)
    /\ inv = InventoryManager(MAX_EXPOSURE_CENTS)
    /\ state = [mem |-> DefaultState, saved |-> DefaultState]
    /\ pc = "run"
    /\ cycle = RunCycle(0, 0)
    /\ frame = NoSequence
    /\ threads = NoThreads

RunFrame == UNCHANGED <<now, today, client, http, cb, inv, state, threads>>

\* run_once has returned, its except clause at 531 having caught what was
\* raised, if anything
CycleEnds(kind) ==
    /\ ret' = [ret EXCEPT !.ended = kind]
    /\ pc' = "cycle_ended"
    /\ cycle' = RunCycle(0, 0)
    /\ frame' = NoSequence

\* A loop that an exception escaping run_once ends: C27 must tell it from
\* AfterEscape.
StopAfterEscape == "stopped"

\* Lines 548-550: an exception that reaches run is logged and the loop goes
\* on after the backoff
AfterEscape == "backoff"

\* Line 541: run calls run_once; a cycle starts.
RunCycleStart ==
    /\ pc = "run"
    /\ pc' = "run_once"
    /\ UNCHANGED <<ret, cycle, frame>>
    /\ RunFrame

\* Lines 484-497: the two log calls, which stand before the try block, so
\* that an exception from them reaches run; then the balance for the log
\* line, whose failure is caught at 531.
RunBalance ==
    /\ pc = "run_once"
    /\ \/ /\ pc' = "run_scan"
          /\ UNCHANGED <<ret, cycle, frame>>
       \/ /\ pc' = AfterEscape
          /\ ret' = [ret EXCEPT !.ended = "escaped"]
          /\ UNCHANGED <<cycle, frame>>
       \/ CycleEnds("caught_api_error")
       \/ CycleEnds("caught_unexpected_error")
    /\ RunFrame

\* Lines 500-507
RunScan ==
    /\ pc = "run_scan"
    /\ \/ \E n \in 1..MaxRunMarkets :
            /\ cycle' = RunCycle(Min(n, MARKETS_PER_CYCLE), 0)
            /\ pc' = "run_market"
            /\ UNCHANGED <<ret, frame>>
       \/ CycleEnds("no_markets")
       \/ CycleEnds("caught_api_error")
    /\ RunFrame

\* Lines 376-415: no opportunity, no balance or a gate's refusal returns
\* None; otherwise the order sequence begins.
RunMarketBegin ==
    /\ pc = "run_market"
    /\ pc' \in {"run_returned", "run_primary"}
    /\ frame' = NoSequence
    /\ UNCHANGED <<ret, cycle>>
    /\ RunFrame

\* Lines 419-433
RunPrimary ==
    /\ pc = "run_primary"
    /\ \/ /\ frame' = [frame EXCEPT !.orders = Append(@, "buy")]
          /\ pc' = "run_hedge"
       \/ /\ frame' = frame
          /\ pc' = IF AfterOrderError(frame.orders) = "cancel"
                   THEN "run_cancel" ELSE "run_returned"
    /\ UNCHANGED <<ret, cycle>>
    /\ RunFrame

\* Lines 435-470
RunHedge ==
    /\ pc = "run_hedge"
    /\ \/ /\ frame' = [frame EXCEPT !.orders = Append(@, "sell"), !.result = TRUE]
          /\ pc' = "run_returned"
       \/ /\ frame' = frame
          /\ pc' = IF AfterOrderError(frame.orders) = "cancel"
                   THEN "run_cancel" ELSE "run_returned"
    /\ UNCHANGED <<ret, cycle>>
    /\ RunFrame

\* Lines 475-480: one cancel per order placed, failing or not
RunCancel ==
    /\ pc = "run_cancel"
    /\ frame' = [frame EXCEPT !.cancels = @ + 1]
    /\ pc' = IF frame.cancels + 1 = Len(frame.orders) THEN "run_returned" ELSE "run_cancel"
    /\ UNCHANGED <<ret, cycle>>
    /\ RunFrame

\* Lines 510-514
RunAfterMarket ==
    /\ pc = "run_returned"
    /\ cycle' = RunCycle(cycle.markets - 1,
                         cycle.profits + (IF frame.result THEN 1 ELSE 0))
    /\ pc' = IF cycle.markets = 1 THEN "run_summary" ELSE "run_market"
    /\ frame' = NoSequence
    /\ ret' = ret
    /\ RunFrame

\* Lines 516-529; save_state raising is caught at 531.
RunSummary ==
    /\ pc = "run_summary"
    /\ \/ CycleEnds("completed")
       \/ CycleEnds("caught_unexpected_error")
    /\ RunFrame

\* Lines 542-543: the log line, which may raise, and the five-minute sleep
RunSleep ==
    /\ pc = "cycle_ended"
    /\ \/ /\ pc' = "run"
          /\ ret' = [ret EXCEPT !.slept = CYCLE_SLEEP_SECONDS]
       \/ /\ pc' = AfterEscape
          /\ ret' = [ret EXCEPT !.ended = "escaped"]
    /\ UNCHANGED <<cycle, frame>>
    /\ RunFrame

\* Lines 549-550
RunBackoff ==
    /\ pc = "backoff"
    /\ pc' = "run"
    /\ ret' = [ret EXCEPT !.slept = BACKOFF_SLEEP_SECONDS]
    /\ UNCHANGED <<cycle, frame>>
    /\ RunFrame

\* Where a KeyboardInterrupt raised at pc is caught by a bare except clause
\* and lost: the balance fetch of place_market_making_orders (lines 386-391)
\* and the cancel loop (lines 476-479).  Everywhere else it passes the
\* `except Exception` clauses (lines 298, 472, 531, 548) and reaches run.
Swallowing == {"run_market", "run_cancel"}

\* SIGINT arrives: KeyboardInterrupt is raised in the statement in hand.
\* Swallowed, it ends that statement as a failure; otherwise it unwinds to
\* line 545 and the loop is left (from the backoff sleep, to the caller of
\* run), with no cancel loop run on the way.
RunInterrupt ==
    /\ pc # "stopped"
    /\ \/ /\ pc \in Swallowing
          /\ pc' = "run_returned"
          /\ frame' = IF pc = "run_cancel" THEN [frame EXCEPT !.cancels = @ + 1]
                                           ELSE NoSequence
          /\ ret' = [ret EXCEPT !.interrupted = TRUE]
       \/ /\ pc' = "stopped"
          /\ frame' = frame
          /\ ret' = [ret EXCEPT !.interrupted = TRUE, !.stopped_at = pc]
    /\ cycle' = cycle
    /\ RunFrame

RunProgram ==
    \/ RunCycleStart
    \/ RunBalance
    \/ RunScan
    \/ RunMarketBegin
    \/ RunPrimary
    \/ RunHedge
    \/ RunCancel
    \/ RunAfterMarket
    \/ RunSummary
    \/ RunSleep
    \/ RunBackoff

RunNext == RunProgram \/ RunInterrupt

\* Every call returns or raises (requests time out after
\* REQUEST_TIMEOUT_SECONDS) and every sleep ends: the thread always takes its
\* next step.
SpecRun == RunInit /\ [][RunNext]_vars /\ WF_vars(RunProgram)

-----------------------------------------------------------------------------
(* TradingBot.get_liquid_markets on its own, on listings long enough for    *)
(* the cut to ten, with a market that has no market_id and with detail      *)
(* lookups that fail.                                                       *)

MaxListed == 13   \* markets get_markets lists
MaxFirst == 4     \* where in ScanIds a listing may start

\* market.get('market_id') of a market that has none
NoMarketId == ""

ScanIds ==
    <<"M1", "M2", "M3", "M4", "M5", "M6", "M7", "M8", "M9", "M10", "M11", "M12",
      "M13", "M14", "M15", "M16">>
ScanVolumes ==
    <<5000, 900, 3000, MIN_VOLUME_THRESHOLD, 1001, 7000, 2000, 2000, 6000, 4000,
      8000, 1500, 9000, 2500, 3500, 4500>>
ScanMarket(i) == Market(ScanIds[i], ScanVolumes[i], 40, 45, 0, 0)

\* What get_markets lists: n markets from the i-th on, the p-th of them
\* (if p > 0) without a market_id.
ScanListing(n, i, p) ==
    [k \in 1..n |->
        LET m == ScanMarket(((i + k - 2) % Len(ScanIds)) + 1)
        IN IF k = p THEN [m EXCEPT !.id = NoMarketId] ELSE m]

\* The ids whose get_market lookup may raise
ScanFailing == {NoMarketId, ScanIds[3], ScanIds[6], ScanIds[13]}

\* Lines 277-281: the ids get_market is called with, one per listed market,
\* in the order listed; the id is not tested before the call.
detail_requests(listed) == [k \in 1..Len(listed) |-> listed[k].id]

ScanInit ==
    /\ now = 0
    /\ today = 0
    /\ client = [last_token |-> NoToken, token_expires |-> 0]
    /\ http = <<>>
    /\ ret = NoCall
    /\ cb = CircuitBreaker(0)
    /\ inv = InventoryManager(MAX_EXPOSURE_CENTS)
    /\ state = [mem |-> DefaultState, saved |-> DefaultState]
    /\ pc = "scan_alone"
    /\ cycle = NoCycle
    /\ \E n \in 0..MaxListed : \E i \in 1..MaxFirst : \E p \in 0..n :
       \E failed \in SUBSET ScanFailing :
           frame = [listed |-> ScanListing(n, i, p), failed |-> failed]
    /\ threads = NoThreads

\* One call of get_liquid_markets, get_markets having returned frame.listed
ScanAlone ==
    /\ pc = "scan_alone"
    /\ pc' = "scanned"
    /\ ret' = [op |-> "get_liquid_markets", raised |-> FALSE,
               requests |-> detail_requests(frame.listed),
               found |-> get_liquid_markets(frame.listed, frame.failed)]
    /\ UNCHANGED <<now, today, client, http, cb, inv, state, cycle, frame, threads>>

SpecScan == ScanInit /\ [][ScanAlone]_vars

-----------------------------------------------------------------------------
(* KalshiClient used over the life of a token: requests that meet network   *)
(* failures, made at any age of the cached token.                           *)

MaxExpiryTime == 303   \* seconds on the clock

\* The seconds that may go by between two requests
ExpirySteps == {59, 60, 61}

ExpiryFailures == {"conn", "timeout"}

\* The seconds from the start of _request's loop to the sending of attempt
\* i: the attempts before it, as long as each lasted, and the sleeps after
\* them (lines 173-205).
RECURSIVE SentAfter(_, _, _)
SentAfter(outs, slept, i) ==
    IF i = 1 THEN 0
    ELSE SentAfter(outs, slept, i - 1) + AttemptOutcome(outs, i - 1).dur + slept[i - 1]

ExpiryInit ==
    /\ now = 0
    /\ today = 0
    /\ client = [last_token |-> NoToken, token_expires |-> 0]
    /\ http = <<>>
    /\ ret = NoCall
    /\ cb = CircuitBreaker(0)
    /\ inv = InventoryManager(MAX_EXPOSURE_CENTS)
    /\ state = [mem |-> DefaultState, saved |-> DefaultState]
    /\ pc = "expiry"
    /\ cycle = NoCycle
    /\ frame = NoFrame
    /\ threads = NoThreads

\* One cancel_order call at time now: the headers, and the token in them,
\* are built once, at line 163, before the loop; frame keeps the time of
\* the call and the expiry of the token every attempt carried.
ExpiryCall ==
    /\ pc = "expiry"
    /\ \E outs \in Scenarios(CancelBodies, ExpiryFailures) :
       \E q \in {cancel_order(client, now, 1, outs)} :
          /\ now + q.res.elapsed <= MaxExpiryTime
          /\ now' = now + q.res.elapsed
          /\ client' = q.client
          /\ http' = q.sent
          /\ ret' = [op |-> "cancel_order", side |-> "", price |-> 0, count |-> 0,
                     type |-> "", order_id |-> 1, outs |-> outs, res |-> q.res,
                     minted |-> q.minted]
          /\ frame' = [at |-> now, token_expires |-> q.client.token_expires]
    /\ pc' = "expiry_returned"
    /\ UNCHANGED <<today, cb, inv, state, cycle, threads>>

\* The caller goes on.
ExpiryGoesOn ==
    /\ pc = "expiry_returned"
    /\ pc' = "expiry"
    /\ ret' = NoCall
    /\ http' = <<>>
    /\ frame' = NoFrame
    /\ UNCHANGED <<now, today, client, cb, inv, state, cycle, threads>>

ExpiryTick ==
    /\ pc = "expiry"
    /\ \E d \in ExpirySteps :
          /\ now + d <= MaxExpiryTime
          /\ now' = now + d
    /\ UNCHANGED <<today, client, http, ret, cb, inv, state, pc, cycle, frame, threads>>

ExpiryNext ==
    \/ ExpiryCall
    \/ ExpiryGoesOn
    \/ ExpiryTick

SpecExpiry == ExpiryInit /\ [][ExpiryNext]_vars

-----------------------------------------------------------------------------
(* place_order against an exchange that keeps the orders it accepts.  The   *)
(* order sent (lines 413-419) carries the market, side, price, count and    *)
(* type and nothing that names the call, so the exchange takes every POST   *)
(* it receives as a new order.  A POST answered 2xx was accepted; one       *)
(* refused with an HTTP error or lost to a connection error was not; one    *)
(* that timed out on the client was accepted or not, the client cannot      *)
(* tell.                                                                    *)

ExchangePrices == {1, 50, 99, 100}
ExchangeFailures == {"conn", "timeout", "http"}

\* Whether the exchange may have accepted (a = TRUE) or not (a = FALSE) a
\* POST that ended for the client with outcome o
MayAccept(o, a) ==
    CASE o.kind \in {"json", "empty"} -> a
      [] o.kind = "timeout" -> TRUE
      [] OTHER -> ~a

\* The ways the exchange may have dealt with the n attempts of one call
Acceptances(outs, n) ==
    {acc \in [1..n -> BOOLEAN] : \A i \in 1..n : MayAccept(AttemptOutcome(outs, i), acc[i])}

ExchangeInit ==
    /\ now = 0
    /\ today = 0
    /\ client = [last_token |-> NoToken, token_expires |-> 0]
    /\ http = <<>>
    /\ ret = NoCall
    /\ cb = CircuitBreaker(0)
    /\ inv = InventoryManager(MAX_EXPOSURE_CENTS)
    /\ state = [mem |-> DefaultState, saved |-> DefaultState]
    /\ pc = "exchange"
    /\ cycle = NoCycle
    /\ frame = [accepted |-> <<>>]
    /\ threads = NoThreads

\* One place_order call; frame.accepted tells, attempt by attempt, whether
\* the exchange created an order.
ExchangePlaceOrder ==
    /\ pc = "exchange"
    /\ \E side \in {"yes", "no"}, price \in ExchangePrices, count \in {1, 10} :
       \E outs \in Scenarios(OrderBodies, ExchangeFailures) :
       \E q \in {place_order(client, 0, side, price, count, "limit", outs)} :
       \E acc \in Acceptances(outs, q.res.attempts) :
          /\ client' = q.client
          /\ http' = q.sent
          /\ ret' = [op |-> "place_order", side |-> side, price |-> price,
                     count |-> count, type |-> "limit", order_id |-> 0,
                     outs |-> outs, res |-> q.res, minted |-> q.minted]
          /\ frame' = [accepted |-> acc]
    /\ pc' = "exchange_returned"
    /\ UNCHANGED <<now, today, cb, inv, state, cycle, threads>>

SpecExchange == ExchangeInit /\ [][ExchangePlaceOrder]_vars

-----------------------------------------------------------------------------
(* One cycle of run_once over up to MARKETS_PER_CYCLE markets, with the     *)
(* time of every POST /orders the bot sends kept beside the breaker's own   *)
(* order_timestamps.  The balance is answered at once; an order is          *)
(* answered at once or meets three connection errors.                       *)

RateMarkets == {m \in Markets : calculate_spread(m).type # "none"}

\* The markets of the cycle: n markets quoted alike
RateListing(m, n) == [i \in 1..n |-> [m EXCEPT !.id = ScanIds[i]]]

RateBalance == <<Outcome("json", PortfolioBody("cash", 100000))>>
RateOrderScenarios == {<<Outcome("json", OrderBody(1))>>, <<Outcome("conn", NoBody)>>}

\* The times at which the attempts of a call made at time t were sent
PostTimes(t, outs, res) == [i \in 1..res.attempts |-> t + SentAfter(outs, res.slept, i)]

NoRateFrame ==
    [market |-> NoMarket, opportunity |-> NoOpportunity, position_size |-> 0,
     orders |-> <<>>, accepted_at |-> -1, posts |-> <<>>, calls |-> <<>>]

RateInit ==
    /\ now = 0
    /\ today = 0
    /\ client = [last_token |-> NoToken, token_expires |-> 0]
    /\ http = <<>>
    /\ ret = NoCall
    /\ cb = CircuitBreaker(100000)
    /\ inv = InventoryManager(MAX_EXPOSURE_CENTS)
    /\ state = [mem |-> DefaultState, saved |-> DefaultState]
    /\ pc = "rate_market"
    /\ \E m \in RateMarkets : \E n \in 1..MARKETS_PER_CYCLE :
          cycle = [markets |-> RateListing(m, n), profits |-> <<>>]
    /\ frame = NoRateFrame
    /\ threads = NoThreads

\* Lines 376-415: the spread, the balance, the size and the two gates
RateGate ==
    /\ pc = "rate_market"
    /\ cycle.markets # <<>>
    /\ \E market \in {Head(cycle.markets)} :
       \E opportunity \in {calculate_spread(market)} :
       \E q \in {get_balance(client, now, RateBalance)} :
       \E account_balance_cents \in {Cash(q.res.body)} :
       \E sized \in {determine_position_size(account_balance_cents, opportunity)} :
       \E chk \in {check_trade_allowed(cb, today, now, account_balance_cents,
                                        opportunity.buy_price * sized.size)} :
       \E can \in {can_add_position(inv, opportunity.type, sized.size,
                                     opportunity.buy_price)} :
          /\ client' = q.client
          /\ cb' = chk.cb
          /\ frame' = [frame EXCEPT !.market = market, !.opportunity = opportunity,
                                    !.position_size = sized.size, !.orders = <<>>,
                                    !.accepted_at = IF chk.allowed THEN now ELSE -1]
          /\ pc' = IF chk.allowed /\ can.allowed THEN "rate_primary" ELSE "rate_pause"
    /\ UNCHANGED <<now, today, http, ret, inv, state, cycle, threads>>

\* A place_order call of the sequence, its POSTs added to frame.posts
RatePlaceOrder(side, price, on_error) ==
    \E outs \in RateOrderScenarios :
    \E q \in {place_order(client, now, side, price, frame.position_size, "limit", outs)} :
    \E t \in {now + q.res.elapsed} :
       /\ now' = t
       /\ client' = q.client
       /\ http' = http \o q.sent
       /\ frame' = [frame EXCEPT
                      !.orders = IF q.res.ok THEN Append(@, q.res.body) ELSE @,
                      !.posts = @ \o PostTimes(now, outs, q.res),
                      !.calls = IF q.res.attempts > 0 THEN Append(@, now) ELSE @]
       /\ IF q.res.ok
          THEN /\ pc' = IF frame.orders = <<>> THEN "rate_hedge" ELSE "rate_pause"
               /\ cb' = IF frame.orders = <<>> THEN cb ELSE record_order(cb, t)
          ELSE /\ pc' = on_error
               /\ cb' = cb

\* Lines 419-433: the primary order; a failure returns None
RatePrimary ==
    /\ pc = "rate_primary"
    /\ RatePlaceOrder(frame.opportunity.type, frame.opportunity.buy_price + 1,
                      "rate_pause")
    /\ UNCHANGED <<today, ret, inv, state, cycle, threads>>

\* Lines 435-460: the hedge, then record_order; a failure goes to the cancel
\* loop
RateHedge ==
    /\ pc = "rate_hedge"
    /\ RatePlaceOrder(HedgeSide(frame.opportunity), HedgePrice(frame.opportunity),
                      "rate_cancel")
    /\ UNCHANGED <<today, ret, inv, state, cycle, threads>>

\* Lines 472-480: the primary cancelled
RateCancel ==
    /\ pc = "rate_cancel"
    /\ \E q \in {cancel_order(client, now, frame.orders[1].order_id,
                              <<Outcome("json", OrderBody(0))>>)} :
          /\ client' = q.client
          /\ http' = http \o q.sent
    /\ pc' = "rate_pause"
    /\ UNCHANGED <<now, today, ret, cb, inv, state, cycle, frame, threads>>

\* Lines 509-514: time.sleep(1), then the next market
RatePause ==
    /\ pc = "rate_pause"
    /\ now' = now + MARKET_SLEEP_SECONDS
    /\ cycle' = [cycle EXCEPT !.markets = Tail(@)]
    /\ pc' = "rate_market"
    /\ UNCHANGED <<today, client, http, ret, cb, inv, state, frame, threads>>

RateNext ==
    \/ RateGate
    \/ RatePrimary
    \/ RateHedge
    \/ RateCancel
    \/ RatePause

SpecRate == RateInit /\ [][RateNext]_vars

-----------------------------------------------------------------------------
(* Properties of place_market_making_orders and run_once, under Spec *)

\* What became of one place_order call of the call in hand
Accepted(call) == call.called /\ call.ok
Identified(call) == call.called /\ call.ok /\ call.body.order_id # 0
Raised(call) == call.called /\ ~call.ok

\* check_trade_allowed ran for the market in hand
CheckRan == frame.gate \in {"circuit_breaker", "inventory", "passed"}

\* The order window when the call began, emptied if its check was the first
\* one of a new date
CheckedWindow ==
    IF CheckRan /\ today # frame.pre_cb.last_reset_date
    THEN <<>>
    ELSE frame.pre_cb.order_timestamps

CancelsSent == SelectSeq(http, LAMBDA w : w.endpoint = "/orders/{id}/cancel")
OrdersSent == SelectSeq(http, LAMBDA w : w.endpoint = "/orders")

\* C1: when place_market_making_orders returns after sending orders, either
\* it reports success and both the primary and the hedge were accepted with
\* an identifier, or it reports failure and a cancel was issued if the
\* exchange accepted the primary.
C1_OrderPairAtomicity ==
    (pc = "returned" /\ frame.gate = "passed") =>
        \/ /\ frame.result.some
           /\ Identified(frame.buy)
           /\ Identified(frame.sell)
        \/ /\ ~frame.result.some
           /\ Accepted(frame.buy) => Len(frame.cancels) >= 1

\* C2: if the primary was placed with an identifier and the hedge placement
\* then raises, cancel_order has been called exactly once, for the primary's
\* identifier, when the call returns; there is no result; run_once appends no
\* profit for the market, and total_trades grows by the number of profits
\* appended and by nothing else.
C2_HedgeFailureUnwinds ==
    /\ [](pc = "returned" /\ Identified(frame.buy) /\ Raised(frame.sell) =>
            /\ Len(frame.cancels) = 1
            /\ frame.cancels[1].order_id = frame.buy.body.order_id
            /\ Len(CancelsSent) >= 1
            /\ \A i \in 1..Len(CancelsSent) :
                   CancelsSent[i].order_id = frame.buy.body.order_id
            /\ ~frame.result.some)
    /\ [][pc = "returned" /\ Raised(frame.sell) =>
            cycle'.profits = cycle.profits]_vars
    /\ [][pc = "summary" =>
            state'.mem.total_trades = state.mem.total_trades + Len(cycle.profits)]_vars

\* C2's case: an identified primary, a hedge refused by the exchange, one
\* cancel made.
C2_Witness ==
    /\ pc = "returned"
    /\ Identified(frame.buy)
    /\ Raised(frame.sell)
    /\ frame.sell.exc = "KalshiAPIError"
    /\ Len(frame.cancels) = 1

\* C3: if the primary place_order returned an empty response or one without
\* an identifier, no hedge place_order is made, there is no result, and the
\* inventory and the order window stay as they were.
C3_NoIdentifierIsFailure ==
    (Accepted(frame.buy) /\ frame.buy.body.order_id = 0) =>
        /\ ~frame.sell.called
        /\ ~frame.result.some
        /\ inv = frame.pre_inv
        /\ cb.order_timestamps = CheckedWindow

\* C4: if the hedge placement raised or returned no identifier, then when the
\* call returns a cancel of the primary has been attempted and there is no
\* result, whatever became of the cancel.
C4_HedgeFailureCancels ==
    (pc = "returned" /\ frame.sell.called /\ ~Identified(frame.sell)) =>
        /\ Len(frame.cancels) >= 1
        /\ ~frame.result.some

\* The call returned because check_trade_allowed or can_add_position refused
Rejected == pc = "returned" /\ frame.gate \in {"circuit_breaker", "inventory"}

\* No order was placed or cancelled for the market in hand
NoOrderTouched ==
    /\ ~frame.buy.called
    /\ ~frame.sell.called
    /\ frame.cancels = <<>>
    /\ \A i \in 1..Len(http) : http[i].endpoint = "/portfolio"
    /\ ~frame.result.some

\* C5, as stated: a rejection by the breaker or by the inventory check sends
\* no place_order and no cancel_order, yields no result, and leaves the
\* inventory, the order window and daily_pnl as they were.
C5_RejectionChangesNothing ==
    Rejected =>
        /\ NoOrderTouched
        /\ inv = frame.pre_inv
        /\ cb.order_timestamps = frame.pre_cb.order_timestamps
        /\ cb.daily_pnl = frame.pre_cb.daily_pnl

\* C5, amended: as above, except that a rejecting check which is the first
\* check of a new date has made the daily reset: the order window is then
\* empty and daily_pnl is 0.
C5_RejectionChangesNothingButDailyReset ==
    Rejected =>
        /\ NoOrderTouched
        /\ inv = frame.pre_inv
        /\ IF today # frame.pre_cb.last_reset_date
           THEN cb.order_timestamps = <<>> /\ cb.daily_pnl = 0
           ELSE /\ cb.order_timestamps = frame.pre_cb.order_timestamps
                /\ cb.daily_pnl = frame.pre_cb.daily_pnl

\* C5's case: a rejection on a new date with orders in the window.
C5_Witness ==
    /\ Rejected
    /\ frame.pre_cb.order_timestamps # <<>>
    /\ today # frame.pre_cb.last_reset_date

\* C6: when the call returns a result, the inventory's count of the bought
\* side has grown by the position size.
C6_SuccessAddsPosition ==
    (pc = "returned" /\ frame.result.some) =>
        IF frame.opportunity.type = "yes"
        THEN inv.yes_contracts = frame.pre_inv.yes_contracts + frame.position_size
        ELSE inv.no_contracts = frame.pre_inv.no_contracts + frame.position_size

C8_OrdersSentAreValid ==
    \A i \in 1..Len(OrdersSent) :
        /\ OrdersSent[i].side \in {"yes", "no"}
        /\ OrdersSent[i].price \in 1..99
        /\ OrdersSent[i].count \in MIN_POSITION_CONTRACTS..MAX_POSITION_CONTRACTS

\* C8's case: a primary and a hedge request sent, at the largest count.
C8_Witness ==
    /\ Len(OrdersSent) = 2
    /\ OrdersSent[1].side # OrdersSent[2].side
    /\ OrdersSent[2].count = MAX_POSITION_CONTRACTS

-----------------------------------------------------------------------------
(* Properties of KalshiClient, under SpecClient *)

ValidOrder(r) ==
    /\ r.side \in {"yes", "no"}
    /\ 1 <= r.price /\ r.price <= 99
    /\ r.count > 0
    /\ r.type \in {"limit", "market"}

\* C9: a place_order call with an invalid side, price, count or type raises
\* ValueError with no HTTP attempt made and no token minted; with all four
\* valid, the HTTP attempts made are those of one POST /orders request for
\* the order asked, and there is at least one.
C9_PlaceOrderValidatesFirst ==
    (pc = "client_returned" /\ ret.op = "place_order") =>
        IF ValidOrder(ret)
        THEN /\ ret.res.exc # "ValueError"
             /\ Len(http) >= 1
             /\ Len(http) = ret.res.attempts
             /\ \A i \in 1..Len(http) :
                    http[i] = Wire("/orders", ret.side, ret.price, ret.count, ret.type, 0)
        ELSE /\ ~ret.res.ok
             /\ ret.res.exc = "ValueError"
             /\ http = <<>>
             /\ ~ret.minted

\* C9's case: a price of 100 refused on a client that has no token, and
\* still has none.
C9_Witness ==
    /\ pc = "client_returned"
    /\ ret.op = "place_order"
    /\ ret.side = "yes" /\ ret.price = 100 /\ ret.count = 1 /\ ret.type = "limit"
    /\ client.last_token = NoToken

NetworkKinds == {"conn", "timeout"}

\* The first k - 1 attempts of the call met network failures
NetworkFailuresBefore(k) ==
    \A i \in 1..(k - 1) : AttemptOutcome(ret.outs, i).kind \in NetworkKinds

\* C10: a request makes at most 3 HTTP attempts; if attempt k is answered
\* after network failures of the earlier attempts, the call returns that
\* answer having made k attempts; if 3 attempts meet network failures, the
\* call raises KalshiAPIError naming the failure of the third, having made
\* exactly 3 attempts.
C10_NetworkFailuresRetried ==
    (pc = "client_returned" /\ ret.res.exc # "ValueError") =>
        /\ ret.res.attempts <= 3
        /\ Len(http) = ret.res.attempts
        /\ \A k \in 1..3 :
              (/\ NetworkFailuresBefore(k)
               /\ AttemptOutcome(ret.outs, k).kind \in {"json", "empty"}) =>
                  /\ ret.res.ok
                  /\ ret.res.attempts = k
                  /\ ret.op \in {"place_order", "cancel_order"} =>
                        ret.res.body = IF AttemptOutcome(ret.outs, k).kind = "json"
                                       THEN AttemptOutcome(ret.outs, k).body
                                       ELSE EmptyDict
        /\ NetworkFailuresBefore(4) =>
              /\ ~ret.res.ok
              /\ ret.res.exc = "KalshiAPIError"
              /\ ret.res.attempts = 3
              /\ ret.res.cause = AttemptOutcome(ret.outs, 3).kind

\* C10's case: a connection error then two timeouts, three attempts made.
C10_Witness ==
    /\ pc = "client_returned"
    /\ Len(ret.outs) = 3
    /\ ret.outs[1].kind = "conn"
    /\ ret.outs[2].kind = "timeout"
    /\ ret.outs[3].kind = "timeout"
    /\ Len(http) = 3
    /\ ret.res.cause = "timeout"

\* The first k - 1 attempts of the call met failures that are retried
RetriedFailuresBefore(k) ==
    \A i \in 1..(k - 1) : AttemptOutcome(ret.outs, i).kind \in {"conn", "timeout", "other"}

RECURSIVE SumSeq(_)
SumSeq(q) == IF q = <<>> THEN 0 ELSE Head(q) + SumSeq(Tail(q))

\* C11: when attempt k of a request is answered with an HTTP error status or
\* with a body that is not JSON, the call raises KalshiAPIError for that
\* answer having made exactly k HTTP attempts, and the only backoff sleeps
\* taken are the k - 1 sleeps before attempt k.
C11_BusinessAndDecodeErrorsFailFast ==
    (pc = "client_returned" /\ ret.res.exc # "ValueError") =>
        \A k \in 1..3 :
            (/\ RetriedFailuresBefore(k)
             /\ AttemptOutcome(ret.outs, k).kind \in {"http", "badjson"}) =>
                /\ ~ret.res.ok
                /\ ret.res.exc = "KalshiAPIError"
                /\ ret.res.cause = AttemptOutcome(ret.outs, k).kind
                /\ ret.res.attempts = k
                /\ Len(http) = k
                /\ ret.res.slept = [i \in 1..(k - 1) |-> Pow2(i - 1)]
                /\ ret.res.elapsed
                     = SumSeq(ret.res.slept)
                       + SumSeq([i \in 1..k |-> AttemptOutcome(ret.outs, i).dur])

\* C11's case: a timeout, then a body that is not JSON: two attempts, one
\* sleep of a second between them.
C11_Witness ==
    /\ pc = "client_returned"
    /\ Len(ret.outs) = 2
    /\ ret.outs[1].kind = "timeout"
    /\ ret.outs[2].kind = "badjson"
    /\ Len(http) = 2
    /\ ret.res.slept = <<1>>

\* The answer the call returned on: the answer to its last attempt
Answered == AttemptOutcome(ret.outs, ret.res.attempts)

\* C12: for get_markets, get_market, get_portfolio, get_balance,
\* get_open_orders and get_positions, when the request meets an HTTP error or
\* bad JSON, or failures on all three attempts, the call raises
\* KalshiAPIError for that failure and returns no default.
C12_ReadFailuresPropagate ==
    (pc = "client_returned" /\ ret.op \in ReadOps \cup {"get_balance"}) =>
        \A k \in 1..3 :
            (/\ RetriedFailuresBefore(k)
             /\ \/ AttemptOutcome(ret.outs, k).kind \in {"http", "badjson"}
                \/ k = 3 /\ AttemptOutcome(ret.outs, k).kind \in {"conn", "timeout", "other"}) =>
                /\ ~ret.res.ok
                /\ ret.res.exc = "KalshiAPIError"
                /\ ret.res.cause = AttemptOutcome(ret.outs, k).kind
                /\ ret.res.body = NoBody

\* C12's case: get_balance meeting an HTTP error on its second attempt.
C12_Witness ==
    /\ pc = "client_returned"
    /\ ret.op = "get_balance"
    /\ Len(ret.outs) = 2
    /\ ret.outs[2].kind = "http"
    /\ ret.res.exc = "KalshiAPIError"

\* The object under 'balance' of a portfolio, as get_balance hands it on
BalanceObject(portfolio) ==
    IF portfolio.balance = "empty"
    THEN EmptyDict
    ELSE Body("balance", 0, portfolio.balance, portfolio.cash)

EmptyDefault(op) ==
    CASE op = "get_portfolio" -> PortfolioBody("empty", 0)
      [] op = "get_open_orders" -> ListBody("orders", "list", 0)
      [] OTHER -> ListBody("positions", "list", 0)

\* C14: get_portfolio, get_open_orders and get_positions return their empty
\* default when the response lacks the expected key or has something of the
\* wrong type under it.
C14_ReadsValidateShape ==
    (/\ pc = "client_returned"
     /\ ret.op \in {"get_portfolio", "get_open_orders", "get_positions"}
     /\ ret.res.ok
     /\ Answered.kind = "json"
     /\ Answered.body.balance \in {"missing", "not_dict", "not_list"}) =>
        ret.res.body = EmptyDefault(ret.op)

-----------------------------------------------------------------------------
(* Properties of _get_token, under SpecToken *)

\* C15: a call of _get_token that finds a cached token with now < expiry - 60
\* returns that token and leaves the cache as it was; any other call mints a
\* token that expires at now + 300 and caches it.  The token returned has
\* more than 60 s left when it is returned, and the cached expiry never
\* decreases.
C15_TokenLifecycle ==
    /\ [](ret.op = "_get_token" =>
            /\ IF /\ ret.before.last_token # NoToken
                  /\ ret.at < ret.before.token_expires - 60
               THEN /\ ret.token = ret.before.last_token
                    /\ (now = ret.at => client = ret.before)
               ELSE /\ ret.token # ret.before.last_token
                    /\ (now = ret.at =>
                          client = [last_token |-> ret.token,
                                    token_expires |-> ret.at + 300])
            /\ client.last_token = ret.token
            /\ client.token_expires - ret.at > 60)
    /\ [][client'.token_expires >= client.token_expires]_vars

\* C15's case: a token minted at 0 found again at 240, when it has exactly
\* 60 s left, and replaced.
C15_Witness ==
    /\ ret.op = "_get_token"
    /\ ret.at = 240
    /\ ret.before = [last_token |-> 0, token_expires |-> 300]
    /\ ret.token = 240
    /\ client.token_expires = 540

\* C16: when two callers of one client have both returned from _get_token,
\* having called while no valid token was cached, one token was minted and
\* both callers hold it.
C16_OneMintForConcurrentCallers ==
    (\A i \in Callers : threads[i].pc = "done") =>
        /\ Cardinality({i \in Callers : threads[i].minted}) = 1
        /\ \A i, j \in Callers : threads[i].token = threads[j].token

-----------------------------------------------------------------------------
(* Properties of CircuitBreaker, under SpecBreaker.  In the state after a   *)
(* check, ret.before is the breaker as the check found it and cb the        *)
(* breaker as it left it.                                                   *)

Checked == pc = "breaker_checked"

\* The check was the first one on a date other than the last reset's
NewDate == ret.date # ret.before.last_reset_date

\* C17: with a daily P&L of -daily_loss_limit - 1 every check on the date of
\* the last reset rejects for the daily loss, whatever the balance, the
\* position value and the orders recorded, and leaves the P&L as it is; the
\* first check on another date sets the P&L to 0 and does not reject for the
\* daily loss; a P&L of exactly -daily_loss_limit does not reject for it.
C17_DailyLossLatch ==
    Checked =>
        /\ (ret.before.daily_pnl = -5000 - 1 /\ ~NewDate) =>
              /\ ~ret.allowed
              /\ ret.reason = "Daily loss limit exceeded"
              /\ cb.daily_pnl = ret.before.daily_pnl
        /\ (ret.before.daily_pnl = -5000 - 1 /\ NewDate) =>
              /\ cb.daily_pnl = 0
              /\ ret.reason # "Daily loss limit exceeded"
        /\ ret.before.daily_pnl = -5000 =>
              ret.reason # "Daily loss limit exceeded"

\* C17's case: a rejection for the daily loss of a trade that passes every
\* other limit, with an order in the window.
C17_Witness ==
    /\ Checked
    /\ ret.before.daily_pnl = -5001
    /\ ret.before.order_timestamps # <<>>
    /\ ret.current_balance = 10000
    /\ ret.position_value = 10000
    /\ ret.reason = "Daily loss limit exceeded"

\* C18: a check on a date other than last_reset_date sets daily_pnl to 0,
\* empties the order window and sets last_reset_date to the date before it
\* tests any limit, so that it rejects neither for the daily loss nor for the
\* rate; a check on the date of the last reset leaves the three as they are.
\* The reset leaves start_balance alone, and peak_balance but for the check's
\* own raise of the peak to the current balance.
C18_DateRollover ==
    Checked =>
        /\ IF NewDate
           THEN /\ cb.daily_pnl = 0
                /\ cb.order_timestamps = <<>>
                /\ cb.last_reset_date = ret.date
                /\ ret.reason \notin {"Daily loss limit exceeded", "Rate limit"}
           ELSE /\ cb.daily_pnl = ret.before.daily_pnl
                /\ cb.order_timestamps = ret.before.order_timestamps
                /\ cb.last_reset_date = ret.before.last_reset_date
        /\ cb.start_balance = ret.before.start_balance
        /\ cb.peak_balance = Max(ret.before.peak_balance, ret.current_balance)

\* C18's case: the first check of a new date on a breaker latched for the
\* daily loss with orders in its window, and the trade allowed.
C18_Witness ==
    /\ Checked
    /\ NewDate
    /\ ret.before.daily_pnl = -5001
    /\ ret.before.order_timestamps # <<>>
    /\ ret.allowed

\* C19: when the daily-loss test passes, the check rejects for the drawdown
\* exactly when the peak (raised to the current balance if that is higher)
\* is positive and (peak - balance) / peak > 10 %; peak 10000 with balance
\* 8900 is rejected for the drawdown, and with balance 9000, a drawdown of
\* exactly 10 %, is not.
C19_DrawdownGate ==
    (Checked /\ cb.daily_pnl >= -5000) =>
        /\ ret.reason = "Max drawdown exceeded" <=>
              /\ cb.peak_balance > 0
              /\ 10 * (cb.peak_balance - ret.current_balance) > cb.peak_balance
        /\ (ret.before.peak_balance = 10000 /\ ret.current_balance = 8900) =>
              ret.reason = "Max drawdown exceeded"
        /\ (ret.before.peak_balance = 10000 /\ ret.current_balance = 9000) =>
              ret.reason # "Max drawdown exceeded"
        /\ cb.peak_balance = 0 => ret.reason # "Max drawdown exceeded"

\* C19's case: peak 10000, balance 8900, the P&L at the daily limit itself.
C19_Witness ==
    /\ Checked
    /\ ret.before.peak_balance = 10000
    /\ ret.current_balance = 8900
    /\ cb.daily_pnl = -5000
    /\ ret.reason = "Max drawdown exceeded"

\* The orders recorded less than 60 s before time t
OrdersWithin60(t) ==
    Cardinality({i \in 1..Len(cb.order_timestamps) :
                    cb.order_timestamps[i] <= t /\ t - cb.order_timestamps[i] < 60})

\* C20: when the daily-loss, drawdown and position tests pass, the check
\* rejects for the rate exactly when 10 or more orders were recorded less
\* than 60 s before it; and with orders recorded only after an accepting
\* check, no 60 s window ever holds more than 10 recorded orders.
C20_RateLimiter ==
    /\ (Checked /\ ret.reason \notin {"Daily loss limit exceeded",
                                      "Max drawdown exceeded",
                                      "Position too large"}) =>
          (ret.reason = "Rate limit" <=> OrdersWithin60(ret.at) >= 10)
    /\ Checked => (ret.allowed <=> ret.reason = "OK")
    /\ \A t \in 0..MaxBreakerTime : OrdersWithin60(t) <= 10

\* C20's case: ten orders recorded within the minute, and an eleventh trade
\* refused for the rate.
C20_Witness ==
    /\ Checked
    /\ Len(cb.order_timestamps) = 10
    /\ cb.order_timestamps[1] = 30
    /\ ret.at = 60
    /\ ret.reason = "Rate limit"

-----------------------------------------------------------------------------
(* Properties of InventoryManager, under SpecInventory.  In the state       *)
(* after a check, ret.before is the inventory as the check found it.        *)

InvChecked == pc = "inventory_checked"

\* The value of the other side of the candidate trade, at its average price
OtherSideValue ==
    IF ret.side = "yes"
    THEN Rat(ret.before.no_contracts * ret.before.avg_no_price.n,
             ret.before.avg_no_price.d)
    ELSE Rat(ret.before.yes_contracts * ret.before.avg_yes_price.n,
             ret.before.avg_yes_price.d)

\* The count the side of the candidate trade would hold after it
SideCountAfter ==
    ret.quantity + (IF ret.side = "yes" THEN ret.before.yes_contracts
                                        ELSE ret.before.no_contracts)

\* |yes value - no value| as can_add_position projects it, times the
\* denominator of the other side's value
ProjectedTimesDen ==
    Abs(SideCountAfter * ret.price_cents * OtherSideValue.d - OtherSideValue.n)

\* C21: can_add_position rejects exactly when the projected
\* |yes value - no value| is strictly greater than max_exposure, so that a
\* projected value equal to max_exposure is accepted; the call leaves the
\* inventory as it found it.
C21_CanAddPositionBoundary ==
    InvChecked =>
        /\ ret.allowed <=>
              ProjectedTimesDen <= ret.before.max_exposure * OtherSideValue.d
        /\ ProjectedTimesDen = ret.before.max_exposure * OtherSideValue.d =>
              ret.allowed
        /\ inv = ret.before

\* C21's case: a candidate trade that projects to the cap itself, accepted.
C21_Witness ==
    /\ InvChecked
    /\ ProjectedTimesDen = 5000 * OtherSideValue.d
    /\ ret.quantity = 100 /\ ret.price_cents = 50
    /\ ret.allowed

\* C22: with positions recorded only after an accepting can_add_position of
\* the same arguments, the net exposure get_exposure reports,
\* |yes_contracts * avg_yes_price - no_contracts * avg_no_price|, never
\* exceeds max_exposure.
C22_ExposureWithinCap ==
    get_exposure(inv).net_exposure.n
        <= inv.max_exposure * get_exposure(inv).net_exposure.d

-----------------------------------------------------------------------------
(* Properties of calculate_spread, under SpecSpread *)

Evaluated == pc = "spread_done"

YesSpread == frame.market.yes_ask - frame.market.yes_bid
NoSpread == frame.market.no_ask - frame.market.no_bid

\* The opportunity returned is the yes side at its two quotes, with the
\* fees of both orders taken off the spread
YesOpportunityReturned ==
    /\ frame.opportunity.type = "yes"
    /\ frame.opportunity.buy_price = frame.market.yes_bid
    /\ frame.opportunity.sell_price = frame.market.yes_ask
    /\ frame.opportunity.net_profit = YesSpread - 2 * 2

\* C23, as stated: for all quotes from 0 to 100 with yes_ask - yes_bid >= 5,
\* calculate_spread returns the yes side with buy price yes_bid, sell price
\* yes_ask and net profit spread - 2 * fee.
C23_YesSideReturned ==
    (Evaluated /\ YesSpread >= 5) => YesOpportunityReturned

\* C23, amended: the same for all quotes with yes_bid from 1 to 100; with a
\* yes_bid of 0, which is how a missing quote reads, the yes side is never
\* returned.
C23_YesSideReturnedWhenQuoted ==
    Evaluated =>
        /\ (YesSpread >= 5 /\ frame.market.yes_bid # 0) => YesOpportunityReturned
        /\ frame.market.yes_bid = 0 => frame.opportunity.type # "yes"

\* C23's case: yes bid 40, yes ask 45, net profit 1.
C23_Witness ==
    /\ Evaluated
    /\ frame.market.yes_bid = 40 /\ frame.market.yes_ask = 45
    /\ frame.opportunity.type = "yes"
    /\ frame.opportunity.net_profit = 1

YesQualifies ==
    /\ frame.market.yes_bid # 0 /\ frame.market.yes_ask # 0 /\ YesSpread >= 5
NoQualifies ==
    /\ frame.market.no_bid # 0 /\ frame.market.no_ask # 0 /\ NoSpread >= 5

\* C24: calculate_spread returns the yes side whenever the yes side has both
\* quotes and a spread of 5 or more, whatever the no side offers; the no side
\* when the yes side does not qualify and the no side does; none exactly when
\* neither qualifies.  Every opportunity returned has a net profit of
\* MIN_PROFIT_CENTS or more.
C24_YesBeforeNo ==
    Evaluated =>
        /\ frame.opportunity.type = "yes" <=> YesQualifies
        /\ frame.opportunity.type = "no" <=> (~YesQualifies /\ NoQualifies)
        /\ frame.opportunity.type = "none" <=> (~YesQualifies /\ ~NoQualifies)
        /\ frame.opportunity.type = "no" =>
              /\ frame.opportunity.buy_price = frame.market.no_bid
              /\ frame.opportunity.sell_price = frame.market.no_ask
              /\ frame.opportunity.net_profit = NoSpread - 2 * 2
        /\ frame.opportunity.type # "none" => frame.opportunity.net_profit >= 1
        /\ (/\ frame.market.yes_bid = 40 /\ frame.market.yes_ask = 43
            /\ frame.market.no_bid = 30 /\ frame.market.no_ask = 33) =>
              frame.opportunity.type = "none"

\* C24's case: both sides qualify, the no side with the larger net profit,
\* and the yes side is returned.
C24_Witness ==
    /\ Evaluated
    /\ YesQualifies
    /\ NoQualifies
    /\ NoSpread > YesSpread
    /\ frame.opportunity.type = "yes"

-----------------------------------------------------------------------------
(* Properties of the position sizers, under SpecSizer *)

\* C25: whatever the balance and the opportunity, determine_position_size
\* under either strategy and each of the two sizing functions return a
\* size from MIN_POSITION_CONTRACTS to MAX_POSITION_CONTRACTS, and none of
\* them raises.
C25_SizeAlwaysWithinLimits ==
    pc = "sized" =>
        /\ ret.ok
        /\ ret.size \in 1..100

-----------------------------------------------------------------------------
(* Properties of run_once and get_liquid_markets, under Spec *)

\* The scan has just returned its markets to the cycle
ScanReturned == ret.op = "get_liquid_markets" /\ ~ret.raised

\* A market is in hand: its order sequence has begun and not yet ended
InSequence == pc \in {"primary", "hedge", "cancel"}

\* C26: a detail lookup that fails during the scan leaves out its own
\* market and no other; in the cycle the market in hand is the first of
\* those still to do, its handling never ends the cycle whatever fails (the
\* balance fetch, a gate, an order, a cancel), its order sequence runs to its
\* return before anything else happens, and its return is followed by the
\* next market, or by the summary after the last: each selected market is
\* attempted once, one after another.
C26_MarketsAreIsolated ==
    /\ [](ScanReturned =>
            /\ pc = (IF cycle.markets = <<>> THEN "wait" ELSE "market")
            /\ \A i \in 1..Len(ret.listed) :
                  (ret.listed[i].id \notin ret.failed /\ ret.listed[i].volume > 1000)
                     <=> \E j \in 1..Len(cycle.markets) : cycle.markets[j] = ret.listed[i]
            /\ \A j \in 1..Len(cycle.markets) :
                  \E i \in 1..Len(ret.listed) : cycle.markets[j] = ret.listed[i]
            /\ \A j, k \in 1..Len(cycle.markets) :
                  j < k => cycle.markets[j].volume > cycle.markets[k].volume)
    /\ []((InSequence \/ pc = "returned") =>
            /\ cycle.markets # <<>>
            /\ frame.market = Head(cycle.markets))
    /\ [][(pc = "market" /\ pc' # "market") =>
            /\ pc' \in {"primary", "returned"}
            /\ frame'.market = Head(cycle.markets)
            /\ cycle' = cycle]_vars
    /\ [][InSequence =>
            /\ pc' \in {"hedge", "cancel", "returned"}
            /\ frame'.market = frame.market
            /\ cycle' = cycle]_vars
    /\ [][pc = "returned" =>
            /\ cycle'.markets = Tail(cycle.markets)
            /\ pc' = IF Tail(cycle.markets) = <<>> THEN "summary" ELSE "market"]_vars

\* C26's case: the hedge of the first of two selected markets is refused
\* and the cancel of its primary fails too.
C26_Witness ==
    /\ pc = "returned"
    /\ Raised(frame.sell)
    /\ Len(frame.cancels) = 1
    /\ ~frame.cancels[1].ok
    /\ Len(cycle.markets) = 2

\* C26's case in the scan: of two markets listed, the lookup of the first
\* failed and the second is selected.
C26_ScanWitness ==
    /\ ScanReturned
    /\ Len(ret.listed) = 2
    /\ ret.failed = {ret.listed[1].id}
    /\ cycle.markets = <<ret.listed[2]>>

-----------------------------------------------------------------------------
(* Properties of TradingBot.run, under SpecRun *)

\* C27: the loop is left only upon an interrupt, whatever a cycle ended
\* with; and unless an interrupt arrives, cycles start again and again, each
\* one after the five-minute sleep or after the one-minute backoff that
\* follows an exception reaching run.
C27_CyclesGoOnForEver ==
    /\ [](pc = "stopped" => ret.interrupted)
    /\ [](pc = "run_once" /\ ret.ended # "" =>
            ret.slept = (IF ret.ended = "escaped" THEN 60 ELSE 300))
    /\ ([]<>(pc = "run_once") \/ <>ret.interrupted)

\* C27's case: a cycle that ended with a caught API error, and the next
\* cycle started after the five-minute sleep.
C27_Witness ==
    /\ pc = "run_once"
    /\ ret.ended = "caught_api_error"
    /\ ret.slept = 300
    /\ ~ret.interrupted

\* C28: an interrupt stops the bot between cycles only, and never with a
\* primary order placed that has neither its hedge nor a cancel attempt.
C28_InterruptBetweenCyclesOnly ==
    pc = "stopped" =>
        /\ ret.stopped_at \in {"run", "cycle_ended", "backoff"}
        /\ ~(frame.orders = <<"buy">> /\ frame.cancels = 0)

-----------------------------------------------------------------------------
(* Properties of the persisted state, under Spec *)

\* Both place_order calls of the market in hand returned
PairPlaced == Accepted(frame.buy) /\ Accepted(frame.sell)

C30_StateSavedAfterEveryCycle ==
    pc = "wait" =>
        /\ state.mem.last_check = now
        /\ state.saved = state.mem

-----------------------------------------------------------------------------
(* Properties of get_liquid_markets, under SpecScan *)

ScannedAlone == pc = "scanned"

\* The listed markets that have an identifier and whose lookup succeeded
Eligible ==
    {frame.listed[k] : k \in {j \in 1..Len(frame.listed) :
                                 /\ frame.listed[j].id # NoMarketId
                                 /\ frame.listed[j].id \notin frame.failed}}

Found == {ret.found[k] : k \in 1..Len(ret.found)}

\* The result is at most ten markets, each with a volume above the
\* threshold, by volume, highest first, and no market left out is eligible,
\* above the threshold and larger than one returned.
TopTenByVolume(among) ==
    /\ Len(ret.found) <= 10
    /\ \A k \in 1..Len(ret.found) : ret.found[k].volume > MIN_VOLUME_THRESHOLD
    /\ \A k \in 1..(Len(ret.found) - 1) : ret.found[k].volume >= ret.found[k + 1].volume
    /\ Found \subseteq among
    /\ \A m \in among \ Found :
          \/ m.volume <= MIN_VOLUME_THRESHOLD
          \/ /\ Len(ret.found) = 10
             /\ \A f \in Found : f.volume >= m.volume

\* C31: get_liquid_markets returns at most ten markets, every one with a
\* volume strictly above MIN_VOLUME_THRESHOLD, in order of non-increasing
\* volume, and they are the highest-volume ones among the listed markets
\* that have an identifier and whose detail lookup succeeded; no detail
\* request is sent for a market lacking an identifier, and a failing lookup
\* skips only its own market.
C31_LiquidMarkets ==
    ScannedAlone =>
        /\ TopTenByVolume(Eligible)
        /\ \A k \in 1..Len(ret.requests) : ret.requests[k] # NoMarketId

\* What holds of the code: the same selection among the listed markets whose
\* lookup succeeded, with or without an identifier, and one detail request
\* for every listed market.
C31_TopTenOfLookedUp ==
    ScannedAlone =>
        /\ TopTenByVolume({frame.listed[k] : k \in {j \in 1..Len(frame.listed) :
                                               frame.listed[j].id \notin frame.failed}})
        /\ Len(ret.requests) = Len(frame.listed)

\* A scan that listed more than ten liquid markets, one without an
\* identifier, and had a lookup fail
C31_Witness ==
    /\ ScannedAlone
    /\ Len(ret.found) = 10
    /\ Cardinality({m \in Eligible : m.volume > MIN_VOLUME_THRESHOLD}) > 10
    /\ \E k \in 1..Len(frame.listed) : frame.listed[k].id = NoMarketId
    /\ \E k \in 1..Len(frame.listed) :
          frame.listed[k].id # NoMarketId /\ frame.listed[k].id \in frame.failed

\* ... and returned a market that has no identifier
C31_UnidentifiedReturned ==
    ScannedAlone /\ \E f \in Found : f.id = NoMarketId

-----------------------------------------------------------------------------
(* Further properties of CircuitBreaker, under SpecBreaker *)

\* C32: peak_balance never decreases, whatever is called (check_trade_allowed,
\* record_order, record_pnl) and when the date changes, and after every
\* check_trade_allowed call, accepting or rejecting, and also one rejected for
\* the daily loss, peak_balance is at least the balance passed to the call.
C32_PeakOnlyRises ==
    /\ [][cb'.peak_balance >= cb.peak_balance]_vars
    /\ [](Checked => cb.peak_balance >= ret.current_balance)

\* C32's case: a check rejected for the daily loss, with a balance above the
\* peak the check found
C32_Witness ==
    /\ Checked
    /\ ret.reason = "Daily loss limit exceeded"
    /\ ret.current_balance > ret.before.peak_balance
    /\ cb.peak_balance = ret.current_balance

\* The four limits, as the check's inputs and the breaker it left breach them
DailyLossBreached == cb.daily_pnl < -5000
DrawdownBreached ==
    cb.peak_balance > 0 /\ 10 * (cb.peak_balance - ret.current_balance) > cb.peak_balance
PositionBreached == ret.position_value > 10000
RateBreached == OrdersWithin60(ret.at) >= 10

\* C33: the limits are tested in the order daily loss, drawdown, position
\* value, order rate, and the first that fails gives the reason, whatever
\* the later ones would say; the four rejection reasons differ from each
\* other and from the acceptance, which is returned only when all four pass.
C33_FirstFailingLimit ==
    Checked =>
        /\ ret.reason =
              (IF DailyLossBreached THEN "Daily loss limit exceeded"
               ELSE IF DrawdownBreached THEN "Max drawdown exceeded"
               ELSE IF PositionBreached THEN "Position too large"
               ELSE IF RateBreached THEN "Rate limit"
               ELSE "OK")
        /\ ret.allowed <=> ret.reason = "OK"
        /\ ret.allowed =>
              ~(DailyLossBreached \/ DrawdownBreached \/ PositionBreached \/ RateBreached)
        /\ Cardinality({"Daily loss limit exceeded", "Max drawdown exceeded",
                        "Position too large", "Rate limit", "OK"}) = 5

\* C33's case: the drawdown, the position value and the order rate breached
\* in one check, which rejects for the drawdown
C33_Witness ==
    /\ Checked
    /\ ~DailyLossBreached
    /\ DrawdownBreached
    /\ PositionBreached
    /\ RateBreached
    /\ ret.reason = "Max drawdown exceeded"

-----------------------------------------------------------------------------
(* Further properties of InventoryManager, under SpecInventory *)

\* The inventory after add_position with the arguments of the check
AfterCandidate == add_position(ret.before, ret.side, ret.quantity, ret.price_cents)

\* C34: the exposure can_add_position computes for a candidate trade
\* (side, quantity > 0, price) is the net exposure get_exposure reports once
\* add_position(side, quantity, price) has been applied to the same
\* inventory, whatever the inventory.
C34_ProjectionIsPostTradeExposure ==
    InvChecked =>
        ret.new_exposure.n * get_exposure(AfterCandidate).net_exposure.d
            = get_exposure(AfterCandidate).net_exposure.n * ret.new_exposure.d

\* The two agree when the side traded is empty or held at the candidate price
C34_ProjectionOfFreshSide ==
    (/\ InvChecked
     /\ \/ ret.side = "yes" /\ ret.before.yes_contracts = 0
        \/ ret.side = "no" /\ ret.before.no_contracts = 0) =>
        ret.new_exposure.n * get_exposure(AfterCandidate).net_exposure.d
            = get_exposure(AfterCandidate).net_exposure.n * ret.new_exposure.d

-----------------------------------------------------------------------------
(* Further properties of KalshiClient._request, under SpecClient *)

\* A call returned or raised after at least one HTTP attempt
Requested == pc = "client_returned" /\ ret.res.attempts > 0

-----------------------------------------------------------------------------
(* Properties of _request over the life of a token, under SpecExpiry *)

\* The time at which attempt i of the call was sent
AttemptSentAt(i) == frame.at + SentAfter(ret.outs, ret.res.slept, i)

\* C36: every HTTP attempt that _request sends, the second and the third
\* after timeouts and backoff sleeps included, carries a token that has not
\* expired at the moment the attempt is sent.
C36_TokenFreshAtEveryAttempt ==
    pc = "expiry_returned" =>
        \A i \in 1..ret.res.attempts : AttemptSentAt(i) < frame.token_expires

\* What holds of the code: the first and the second attempt carry an
\* unexpired token, and so does the third one unless both attempts before
\* it timed out.
C36_TokenFreshUnlessTwoTimeouts ==
    pc = "expiry_returned" =>
        \A i \in 1..ret.res.attempts :
            \/ AttemptSentAt(i) < frame.token_expires
            \/ /\ i = 3
               /\ ret.outs[1].kind = "timeout"
               /\ ret.outs[2].kind = "timeout"

\* A third attempt sent with a token whose expiry has passed
C36_ExpiredTokenSent ==
    /\ pc = "expiry_returned"
    /\ ret.res.attempts = 3
    /\ ~ret.minted
    /\ AttemptSentAt(3) >= frame.token_expires

-----------------------------------------------------------------------------
(* Properties of place_order and the exchange's orders, under SpecExchange *)

\* The orders the call created on the exchange
OrdersCreated == Cardinality({i \in 1..Len(frame.accepted) : frame.accepted[i]})

\* C37: one place_order call creates at most one order on the exchange, and
\* a call that raises leaves no order of its own on the exchange, also when
\* an attempt timed out on the client after the exchange had accepted it and
\* _request sent the same POST again.
C37_AtMostOneOrderPerCall ==
    pc = "exchange_returned" =>
        /\ OrdersCreated <= 1
        /\ ~ret.res.ok => OrdersCreated = 0

\* What holds of the code: the same, of the calls none of whose attempts
\* timed out.
C37_OneOrderWithoutTimeouts ==
    (/\ pc = "exchange_returned"
     /\ \A i \in 1..ret.res.attempts : AttemptOutcome(ret.outs, i).kind # "timeout") =>
        /\ OrdersCreated <= 1
        /\ ~ret.res.ok => OrdersCreated = 0

\* A call that returned one order and created two
C37_DuplicateOrder ==
    /\ pc = "exchange_returned"
    /\ ret.res.ok
    /\ ret.res.attempts = 2
    /\ OrdersCreated = 2

\* A call that raised and left an order on the exchange
C37_OrderLeftByFailedCall ==
    /\ pc = "exchange_returned"
    /\ ~ret.res.ok
    /\ OrdersCreated > 0

-----------------------------------------------------------------------------
(* Properties of the order-rate limiter in the bot, under SpecRate *)

\* check_trade_allowed has just accepted
JustAccepted == pc = "rate_primary" /\ frame.accepted_at = now

\* The entries of a list of times that lie in the 60 seconds before now
Trailing(times) == Cardinality({i \in 1..Len(times) : now - times[i] < 60})

\* C38: whenever check_trade_allowed accepts, fewer than ORDERS_PER_MINUTE
\* order requests, primary or hedge, those of cancelled primaries and the
\* attempts that failed included, were sent to the exchange in the 60
\* seconds before.
C38_LimiterCountsEveryOrderRequest ==
    JustAccepted => Trailing(frame.posts) < 10

\* What holds of the code: whenever check_trade_allowed accepts, fewer than
\* ORDERS_PER_MINUTE completed pairs were recorded in the 60 seconds before,
\* and, within one cycle, at most eight place_order calls were made.
C38_LimiterCountsPairs ==
    JustAccepted =>
        /\ Trailing(cb.order_timestamps) < 10
        /\ Trailing(frame.calls) <= 8

\* An accepting check with twelve order requests sent in the seconds before
\* and nothing in the limiter's window
C38_TwelveRequestsUncounted ==
    /\ JustAccepted
    /\ Trailing(frame.posts) = 12
    /\ cb.order_timestamps = <<>>

-----------------------------------------------------------------------------
(* Properties of the order prices and of the daily P&L in the bot, under    *)
(* Spec                                                                     *)

\* C39: for every opportunity calculate_spread returns from quotes in
\* [0, 100], the primary price buy_price + 1 and the hedge price
\* 100 - sell_price both lie in [1, 99], so that place_order's validation
\* never rejects the hedge once the primary order has been placed.
C39_OrderPricesValid ==
    frame.opportunity.type # "none" =>
        /\ frame.opportunity.buy_price + 1 \in 1..99
        /\ HedgePrice(frame.opportunity) \in 1..99
        /\ frame.sell.called => frame.sell.exc # "ValueError"

\* What holds of the code: the primary price lies in [1, 99] and place_order
\* never rejects the primary order for its arguments.
C39_PrimaryPriceValid ==
    frame.opportunity.type # "none" =>
        /\ frame.opportunity.buy_price + 1 \in 1..99
        /\ frame.buy.called => frame.buy.exc # "ValueError"

\* A hedge refused by place_order's validation after the primary order was
\* placed
C39_HedgeRejectedAfterPrimary ==
    /\ frame.buy.ok
    /\ frame.opportunity.sell_price = 100
    /\ frame.sell.called
    /\ frame.sell.exc = "ValueError"

\* C40: in every state the bot reaches, whatever the cycles and the
\* exchange's answers, circuit_breaker.daily_pnl is 0, no operation of the
\* bot calling record_pnl; so check_trade_allowed never rejects a trade of
\* the bot for the daily loss, whatever the balance and the position value.
C40_DailyPnlStaysZero ==
    /\ cb.daily_pnl = 0
    /\ \A current_balance \in CashVals \cup {0} : \A position_value \in {0, 10001} :
          check_trade_allowed(cb, today, now, current_balance, position_value).reason
              # "Daily loss limit exceeded"

\* C40's case: a pair placed and recorded by the breaker, and a later trade
\* stopped by the breaker
C40_Witness ==
    /\ cb.order_timestamps # <<>>
    /\ frame.gate = "circuit_breaker"
    /\ cb.daily_pnl = 0

====
